---------------------------- MODULE Spec2Model ----------------------------
(***************************************************************************)
(* Zone dwell tracking and mask compositing of tmpl-application.           *)
(*                                                                         *)
(*   DepthTracker  (apps/depth_tracking/depth_tracker.py)                  *)
(*   MaskManager   (apps/generator/core/mask_manager.py)                   *)
(*   TMPLMonitor   (apps/generator/core/tmpl_monitor.py)                   *)
(*                                                                         *)
(* Wall-clock time is counted in quarter seconds: time.time() is a         *)
(* non-decreasing integer number of ticks of 0.25 s.                       *)
(***************************************************************************)
EXTENDS Integers, Sequences, FiniteSets, TLC

(***************************************************************************)
(* Bounds of the model.                                                    *)
(***************************************************************************)
\* zones modelled (the code's range(10) and [0] * 10)
NumZones == 2
\* last tick at which update is called when every zone is driven
MaxTime == 14
\* last tick at which update is called when only zone 0 is driven
MaxDwellTime == 24
\* longest gap between two update calls, in ticks
MaxDt == 9
\* pixels of a bitmap (the code's 1280 x 3840)
NumPixels == 2
\* sequence frame files on disk
MaxFiles == 2
\* MaskManagers of the TMPLMonitor (one per MaskConfig)
NumManagers == 2
\* composite files one manager writes
MaxResults == 2
\* composite files written when the compositor is called alone
MaxSaves == 1
\* largest counter in a vector given to process_state

(***************************************************************************)
(* Program constants, in ticks of 0.25 s.                                  *)
(***************************************************************************)
\* self.threshold_time = 3.0
threshold_time == 12
\* COUNTER_INCREMENT_INTERVAL = 0.5
increment_interval == 2

\* a key that is not in a dict (no time recorded)
None == 0 - 1
\* self.last_log_state = None (no line written yet)
NoLine == << >>

Zones == 0 .. (NumZones - 1)

\* np.full(target_size, 255): the background of a composite
Background == 255
\* cv2.threshold(frame, 127, 255, cv2.THRESH_BINARY): thresh and maxval
BinaryThreshold == 127
BinaryMax == 255

Pixels == 1 .. NumPixels
Managers == 1 .. NumManagers

\* the gray values (layer identifiers) of the configurations
GrayValues == {100, 200}
\* the output indexes the mapping file gives them
OutputIndexes == {5, 10}

\* an empty Python dict
EmptyDict == << >>
\* no bitmap: get_frame or load_and_resize_image returned None
NoFrame == << >>
\* process_and_save returned None
NoPath == 0
\* TMPLMonitor.previous_state = None
NoState == <<None>>
\* int() raised ValueError
ValueError == 0 - 2

VARIABLES
    \* ---- DepthTracker ----
    now,                  \* value of time.time() at the latest update call
    column_presence,      \* argument of the latest update call
    position_timers,      \* zone -> time the zone became active (None: no key)
    last_increment_time,  \* zone -> time of the last increment (None: no key)
    position_counters,    \* zone -> counter
    last_log_state,       \* last vector written to tmpl.log (None before any)
    log,                  \* lines of tmpl.log
    \* ---- history of the update calls (not program state) ----
    run_start,            \* zone -> first call time of the current run of
                          \*   consecutive calls reporting the zone present
    long_run,             \* zone -> some such run has spanned threshold_time
    first_run,            \* zone -> "none" | "first" | "later": which run of
                          \*   present calls the zone is in or has last left
    last_inc_ever,        \* zone -> time of the zone's latest increment ever
    \* ---- a second tracker, given other vectors at the same times ----
    twin_timers,          \* its position_timers
    twin_lastinc,         \* its last_increment_time
    twin_counters,        \* its position_counters
    agreed,               \* the zones whose entries it was given unchanged in
                          \*   every call: all before the first call, then one
    \* ---- DepthMaskAdapter.process_frame in the IntegratedDepth thread ----
    frame_pc,             \* where the thread is: "update", "read",
                          \*   "managers" or "record"
    active_seq,           \* active_sequences of the process_state call
    next_manager,         \* the manager the loop of process_state is at
    entry_state,          \* the counters as process_state was entered
    cycle,                \* history of the latest process_frame cycle (not
                          \*   program state)
    \* ---- files ----
    static_disk,          \* gray value -> image of its static mask file, if any
    disk,                 \* the sequence frame files under the panorama directory
    results_dir,          \* results directory: k -> bitmap of the file k.bmp
    \* ---- MaskManager, one per configuration ----
    config,               \* manager -> its MaskConfig
    mask_cache,           \* manager -> gray value -> bitmap
    sequence_frames,      \* manager -> gray value -> sequence -> frame -> bitmap
    sequence_max_frames,  \* manager -> gray value -> sequence -> max frame
    results_index,        \* manager -> number of the last file it saved
    loaded,               \* managers whose load_sequence_frames has run
    \* ---- TMPLMonitor ----
    previous_state,       \* last state vector that was composited
    \* ---- the latest call of get_frame, process_and_save, process_state ----
    call,
    \* ---- IntegratedSpade ----
    spade_input_dir,      \* the mask files in config.spade_input_dir
    spade_output_dir,     \* the images in config.spade_output_dir
    file_counter,         \* number of the next output image
    mask_clock,           \* number of mask files written so far (their ctime)
    spade_call,           \* the latest watch_and_process call
    processed,            \* history: the masks turned into images, in order
    \* ---- ImageSequencePlayer ----
    frame_buffer,         \* the queue of (index, texture) pairs
    current_directory,    \* the directory the loader reads, or None
    sequence_dirs,        \* the numbered images present in each directory
    loader,               \* the loader thread: its position and its locals
    enqueued,             \* history: the indexes the loader has put
    \* ---- IntegratedDepth ----
    running,              \* _running
    thread,               \* _thread: the thread stop() joins, or None
    error_state,          \* _error_state
    threads,              \* the position of every processing thread
    joining,              \* whether stop() is waiting in join()
    frames_processed,     \* history: the process_frame calls made
    stopped               \* history: stop() has returned, no start() since

trackerVars == <<now, column_presence, position_timers, last_increment_time,
                 position_counters, last_log_state, log>>
twinVars == <<twin_timers, twin_lastinc, twin_counters, agreed>>
pipeVars == <<frame_pc, active_seq, next_manager, entry_state, cycle>>
historyVars == <<run_start, long_run, first_run, last_inc_ever, twinVars,
                 pipeVars>>
diskVars == <<static_disk, disk>>
storeVars == <<config, mask_cache, sequence_frames, sequence_max_frames, loaded>>
maskVars == <<diskVars, storeVars, results_dir, results_index, previous_state,
              call>>
spadeVars == <<spade_input_dir, spade_output_dir, file_counter, mask_clock,
               spade_call, processed>>
playerVars == <<frame_buffer, current_directory, sequence_dirs, loader,
                enqueued>>
depthVars == <<running, thread, error_state, threads, joining,
               frames_processed, stopped>>
stageVars == <<spadeVars, playerVars, depthVars>>
vars == <<trackerVars, historyVars, maskVars, stageVars>>

(***************************************************************************)
(* DepthTracker                                                            *)
(***************************************************************************)

\* The tracker's mutable attributes as one record, threaded through the loop
\* of update.
TrackerState ==
    [timers   |-> position_timers,
     lastinc  |-> last_increment_time,
     counters |-> position_counters,
     lastlog  |-> last_log_state,
     log      |-> log]

\* log_state with an inverted or missing comparison: always appends.
log_state_always(st) ==
    [st EXCEPT !.log = Append(st.log, st.counters), !.lastlog = st.counters]

\* DepthTracker.log_state: append the vector unless it equals the last one
\* written; remember a copy of it.
log_state(st) ==
    IF st.counters # st.lastlog
    THEN [st EXCEPT !.log = Append(st.log, st.counters),
                    !.lastlog = st.counters]
    ELSE st

\* column_presence[i] == 1, for a 0-based index into a Python list
Reports(presence, i) == i < Len(presence) /\ presence[i + 1] = 1

\* Body of the for loop of update with the elapsed-time test dropped.
ZoneStep_NoInterval(st, i, presence, t) ==
    IF i < Len(presence)
    THEN IF presence[i + 1] = 1
         THEN IF st.timers[i] = None
              THEN [st EXCEPT !.timers[i] = t, !.lastinc[i] = t]
              ELSE IF t - st.timers[i] >= threshold_time
                   THEN log_state([st EXCEPT !.counters[i] = @ + 1,
                                             !.lastinc[i] = t])
                   ELSE st
         ELSE IF st.timers[i] # None
              THEN [st EXCEPT !.timers[i] = None, !.lastinc[i] = None]
              ELSE st
    ELSE st

\* Body of the for loop of update that also zeroes the counter on absence.
ZoneStep_ResetOnAbsent(st, i, presence, t) ==
    IF i < Len(presence)
    THEN IF presence[i + 1] = 1
         THEN IF st.timers[i] = None
              THEN [st EXCEPT !.timers[i] = t, !.lastinc[i] = t]
              ELSE IF /\ t - st.timers[i] >= threshold_time
                      /\ t - st.lastinc[i] >= increment_interval
                   THEN log_state([st EXCEPT !.counters[i] = @ + 1,
                                             !.lastinc[i] = t])
                   ELSE st
         ELSE [st EXCEPT !.timers[i] = None, !.lastinc[i] = None,
                         !.counters[i] = 0]
    ELSE st

\* Body of the for loop of update that writes a log line at every call that
\* reports the zone present.
ZoneStep_LogEveryCall(st, i, presence, t) ==
    IF i < Len(presence)
    THEN IF presence[i + 1] = 1
         THEN IF st.timers[i] = None
              THEN [st EXCEPT !.timers[i] = t, !.lastinc[i] = t]
              ELSE IF /\ t - st.timers[i] >= threshold_time
                      /\ t - st.lastinc[i] >= increment_interval
                   THEN log_state_always([st EXCEPT !.counters[i] = @ + 1,
                                                    !.lastinc[i] = t])
                   ELSE log_state_always(st)
         ELSE IF st.timers[i] # None
              THEN [st EXCEPT !.timers[i] = None, !.lastinc[i] = None]
              ELSE st
    ELSE st

\* Body of the for loop of update that increments as soon as the threshold is
\* reached and then once per interval counted from the threshold, catching up
\* on every interval that has elapsed.
ZoneStep_CatchUp(st, i, presence, t) ==
    IF i < Len(presence)
    THEN IF presence[i + 1] = 1
         THEN IF st.timers[i] = None
              THEN [st EXCEPT !.timers[i] = t, !.lastinc[i] = t]
              ELSE IF /\ t - st.timers[i] >= threshold_time
                      /\ t - st.lastinc[i] >= increment_interval
                   THEN log_state(
                          [st EXCEPT
                             !.counters[i] =
                                 @ + ((t - st.lastinc[i]) \div increment_interval),
                             !.lastinc[i] = t])
                   ELSE st
         ELSE IF st.timers[i] # None
              THEN [st EXCEPT !.timers[i] = None, !.lastinc[i] = None]
              ELSE st
    ELSE st

\* Body of the for loop of update clearing every timer when a position is
\* no longer active.
ZoneStep_ClearAll(st, i, presence, t) ==
    IF i < Len(presence)
    THEN IF presence[i + 1] = 1
         THEN IF st.timers[i] = None
              THEN [st EXCEPT !.timers[i] = t, !.lastinc[i] = t]
              ELSE IF /\ t - st.timers[i] >= threshold_time
                      /\ t - st.lastinc[i] >= increment_interval
                   THEN log_state([st EXCEPT !.counters[i] = @ + 1,
                                             !.lastinc[i] = t])
                   ELSE st
         ELSE IF st.timers[i] # None
              THEN [st EXCEPT !.timers = [z \in Zones |-> None],
                              !.lastinc = [z \in Zones |-> None]]
              ELSE st
    ELSE st

\* Body of the for loop of update as a three-state machine: the call that
\* finds the threshold passed restarts the interval and does not increment.
ZoneStep_ArmThenCount(st, i, presence, t) ==
    IF i < Len(presence)
    THEN IF presence[i + 1] = 1
         THEN IF st.timers[i] = None
              THEN [st EXCEPT !.timers[i] = t, !.lastinc[i] = t]
              ELSE IF t - st.timers[i] >= threshold_time
                   THEN IF st.lastinc[i] - st.timers[i] < threshold_time
                        THEN [st EXCEPT !.lastinc[i] = t]
                        ELSE IF t - st.lastinc[i] >= increment_interval
                             THEN log_state([st EXCEPT !.counters[i] = @ + 1,
                                                       !.lastinc[i] = t])
                             ELSE st
                   ELSE st
         ELSE IF st.timers[i] # None
              THEN [st EXCEPT !.timers[i] = None, !.lastinc[i] = None]
              ELSE st
    ELSE st

\* Body of the for loop of update that writes the log line before it
\* increments the counter.
ZoneStep_LogBeforeIncrement(st, i, presence, t) ==
    IF i < Len(presence)
    THEN IF presence[i + 1] = 1
         THEN IF st.timers[i] = None
              THEN [st EXCEPT !.timers[i] = t, !.lastinc[i] = t]
              ELSE IF /\ t - st.timers[i] >= threshold_time
                      /\ t - st.lastinc[i] >= increment_interval
                   THEN [log_state(st) EXCEPT !.counters[i] = @ + 1,
                                              !.lastinc[i] = t]
                   ELSE st
         ELSE IF st.timers[i] # None
              THEN [st EXCEPT !.timers[i] = None, !.lastinc[i] = None]
              ELSE st
    ELSE st

\* Body of the for loop of update with `while` in place of `if`: one
\* increment for every whole interval since the last increment, the last
\* increment time advanced by those intervals.
ZoneStep_WhileElapsed(st, i, presence, t) ==
    IF i < Len(presence)
    THEN IF presence[i + 1] = 1
         THEN IF st.timers[i] = None
              THEN [st EXCEPT !.timers[i] = t, !.lastinc[i] = t]
              ELSE IF /\ t - st.timers[i] >= threshold_time
                      /\ t - st.lastinc[i] >= increment_interval
                   THEN log_state(
                          [st EXCEPT
                             !.counters[i] =
                                 @ + ((t - st.lastinc[i]) \div increment_interval),
                             !.lastinc[i] =
                                 @ + increment_interval
                                       * ((t - st.lastinc[i]) \div increment_interval)])
                   ELSE st
         ELSE IF st.timers[i] # None
              THEN [st EXCEPT !.timers[i] = None, !.lastinc[i] = None]
              ELSE st
    ELSE st

\* Body of the for loop of DepthTracker.update for position i at time t.
ZoneStep(st, i, presence, t) ==
    IF i < Len(presence)
    THEN IF presence[i + 1] = 1
         THEN IF st.timers[i] = None
              THEN \* start tracking a newly active position
                   [st EXCEPT !.timers[i] = t, !.lastinc[i] = t]
              ELSE IF /\ t - st.timers[i] >= threshold_time
                      /\ t - st.lastinc[i] >= increment_interval
                   THEN log_state([st EXCEPT !.counters[i] = @ + 1,
                                             !.lastinc[i] = t])
                   ELSE st
         ELSE \* reset timers of a position that is no longer active
              IF st.timers[i] # None
              THEN [st EXCEPT !.timers[i] = None, !.lastinc[i] = None]
              ELSE st
    ELSE \* i >= len(column_presence): the loop body does nothing
         st

\* a reset method as the specification describes it
reset_zeroing(st) ==
    [st |-> [st EXCEPT !.timers = [i \in Zones |-> None],
                       !.lastinc = [i \in Zones |-> None],
                       !.counters = [i \in Zones |-> 0]],
     raised |-> FALSE]

\* tracker.reset(): DepthTracker defines update and log_state only, so the
\* attribute lookup raises AttributeError and nothing changes
reset(st) ==
    [st |-> st, raised |-> TRUE]

\* for i in range(10): positions 0 .. n-1 in order.
RECURSIVE UpdateLoop(_, _, _, _)
UpdateLoop(st, n, presence, t) ==
    IF n = 0 THEN st
    ELSE ZoneStep(UpdateLoop(st, n - 1, presence, t), n - 1, presence, t)

\* the presence vectors update is called with: 0/1 lists of any length up to
\* the number of zones
PresenceVectors ==
    UNION {[1 .. n -> {0, 1}] : n \in 0 .. NumZones}

\* the presence vectors that report at most zone 0
DwellVectors == {<< >>, <<0>>, <<1>>}

\* History of the calls, as the claims count it: a call reports a zone
\* present, or it does not (it reports it absent or has no entry for it).
HistoryAfter(presence, t, counters) ==
    /\ run_start' =
         [i \in Zones |->
            IF Reports(presence, i)
            THEN IF run_start[i] = None THEN t ELSE run_start[i]
            ELSE None]
    /\ long_run' =
         [i \in Zones |->
            \/ long_run[i]
            \/ /\ Reports(presence, i)
               /\ run_start[i] # None
               /\ t - run_start[i] >= threshold_time]
    /\ first_run' =
         [i \in Zones |->
            IF Reports(presence, i)
            THEN IF first_run[i] = "none" THEN "first"
                 ELSE IF run_start[i] = None THEN "later" ELSE first_run[i]
            ELSE IF first_run[i] = "none" THEN "none" ELSE "later"]
    /\ last_inc_ever' =
         [i \in Zones |->
            IF counters[i] # position_counters[i] THEN t
            ELSE last_inc_ever[i]]
    /\ UNCHANGED <<twinVars, pipeVars>>

\* DepthTracker.update(column_presence), called dt ticks after the previous
\* call and no later than tick horizon.
update(presence, dt, horizon) ==
    /\ now + dt <= horizon
    /\ LET t  == now + dt
           st == UpdateLoop(TrackerState, NumZones, presence, t)
       IN /\ now' = t
          /\ column_presence' = presence
          /\ position_timers' = st.timers
          /\ last_increment_time' = st.lastinc
          /\ position_counters' = st.counters
          /\ last_log_state' = st.lastlog
          /\ log' = st.log

\* DepthTracker.__init__
TrackerInit ==
    /\ now = 0
    /\ column_presence = << >>
    /\ position_timers = [i \in Zones |-> None]
    /\ last_increment_time = [i \in Zones |-> None]
    /\ position_counters = [i \in Zones |-> 0]
    /\ last_log_state = NoLine
    /\ log = << >>

\* the history of the process_frame cycles before the first cycle
NoCycle ==
    [changed |-> FALSE, since_write |-> FALSE, since_done |-> FALSE,
     tried |-> FALSE, wrote |-> FALSE, done |-> FALSE, ended |-> FALSE]

\* IntegratedSpade.__init__, with empty directories
SpadeInit ==
    /\ spade_input_dir = {}
    /\ spade_output_dir = {}
    /\ file_counter = 1
    /\ mask_clock = 0
    /\ spade_call = [op |-> "none"]
    /\ processed = << >>

\* the processing threads IntegratedDepth may start in a run
MaxThreads == 3

ThreadIds == 1 .. MaxThreads

\* ImageSequencePlayer.__init__, with the loader thread started at 1 and
\* no image on disk yet
PlayerInit ==
    /\ frame_buffer = << >>
    /\ current_directory = None
    /\ sequence_dirs = {}
    /\ loader = [pc |-> "full", current_index |-> 1, path |-> << >>]
    /\ enqueued = << >>

\* IntegratedDepth.__init__
DepthInit ==
    /\ running = FALSE
    /\ thread = None
    /\ error_state = FALSE
    /\ threads = [t \in ThreadIds |-> "unborn"]
    /\ joining = FALSE
    /\ frames_processed = 0
    /\ stopped = FALSE

\* the stages around the compositor, as constructed
StageInit == SpadeInit /\ PlayerInit /\ DepthInit

HistoryInit ==
    /\ StageInit
    /\ run_start = [i \in Zones |-> None]
    /\ long_run = [i \in Zones |-> FALSE]
    /\ first_run = [i \in Zones |-> "none"]
    /\ last_inc_ever = [i \in Zones |-> None]
    /\ twin_timers = [i \in Zones |-> None]
    /\ twin_lastinc = [i \in Zones |-> None]
    /\ twin_counters = [i \in Zones |-> 0]
    /\ agreed = Zones
    /\ frame_pc = "update"
    /\ active_seq = << >>
    /\ next_manager = 1
    /\ entry_state = NoState
    /\ cycle = NoCycle

\* gaps between calls when every zone is driven: whole increment intervals
WholeGaps == {d \in 0 .. MaxDt : d % increment_interval = 0}

\* update called with any presence vector, every zone driven
UpdateAny ==
    \E p \in PresenceVectors, dt \in WholeGaps :
        /\ update(p, dt, MaxTime)
        /\ UNCHANGED <<historyVars, maskVars, stageVars>>

\* update called with vectors that report zone 0 only, with the history of
\* the calls recorded
UpdateDwell ==
    \E p \in DwellVectors, dt \in 0 .. MaxDt :
        /\ update(p, dt, MaxDwellTime)
        /\ HistoryAfter(p, now', position_counters')
        /\ UNCHANGED <<maskVars, stageVars>>

\* the presence vector that keeps the entry of zone w and reports every
\* other zone it has an entry for absent
Solo(presence, w) ==
    [k \in DOMAIN presence |-> IF k = w + 1 THEN presence[k] ELSE 0]

\* update called on two trackers at the same time: the tracker with any
\* presence vector, its twin with the same vector but for the entries of
\* the zones other than one, the same zone in every call
UpdateTwin ==
    \E p \in PresenceVectors, dt \in WholeGaps, w \in agreed :
        /\ update(p, dt, MaxTime)
        /\ LET st == UpdateLoop([timers |-> twin_timers,
                                 lastinc |-> twin_lastinc,
                                 counters |-> twin_counters,
                                 lastlog |-> NoLine,
                                 log |-> << >>],
                                NumZones, Solo(p, w), now + dt)
           IN /\ twin_timers' = st.timers
              /\ twin_lastinc' = st.lastinc
              /\ twin_counters' = st.counters
        /\ agreed' = {w}
        /\ UNCHANGED <<run_start, long_run, first_run, last_inc_ever,
                       pipeVars, maskVars, stageVars>>

(***************************************************************************)
(* Files and bitmaps                                                       *)
(***************************************************************************)

\* what load_and_resize_image returns for the image files of the model: a
\* grayscale image, or None (NoFrame) for a file it cannot read
ImgFull == [p \in Pixels |-> 255]
ImgFirst == [p \in Pixels |-> IF p = 1 THEN 128 ELSE 127]
ImgLast == [p \in Pixels |-> IF p = NumPixels THEN 200 ELSE 0]
SampleImages == {ImgFull, ImgFirst, ImgLast}

\* cv2.threshold(image, 127, 255, cv2.THRESH_BINARY)
threshold(img) ==
    [p \in Pixels |-> IF img[p] > BinaryThreshold THEN BinaryMax ELSE 0]

\* d[k] = v on a dict
DictSet(d, k, v) ==
    [x \in (DOMAIN d) \cup {k} |-> IF x = k THEN v ELSE d[x]]

\* the trailing '_'-separated part of a sequence directory name
DirTokens == {"0", "1", "x"}
\* the trailing '_'-separated part of a frame file stem
FrameTokens == {"0", "1", "2", "x"}
\* sorted(): the order of names that differ in that trailing part only
TokenOrder == <<"0", "1", "2", "x">>

\* int(name.split('_')[-1])
ParseInt(tok) ==
    CASE tok = "0" -> 0
      [] tok = "1" -> 1
      [] tok = "2" -> 2
      [] OTHER -> ValueError

\* a frame file <base>/<pid>_<gray>/<pid>_<gray>_<dir>/..._<file>.bmp
FrameFiles ==
    [gray : GrayValues, dir : DirTokens, file : FrameTokens,
     img : SampleImages \cup {NoFrame}]

\* sorted(gray_dir.glob(...)) and sorted(seq_dir.glob('*.bmp')), as tokens
SortedTokens(S) == SelectSeq(TokenOrder, LAMBDA t : t \in S)
SeqDirs(d, g) == {f.dir : f \in {x \in d : x.gray = g}}
FramesIn(d, g, tok) == {f.file : f \in {x \in d : x.gray = g /\ x.dir = tok}}
FileAt(d, g, tok, ft) ==
    CHOOSE f \in d : f.gray = g /\ f.dir = tok /\ f.file = ft

Max(a, b) == IF a >= b THEN a ELSE b
Min(a, b) == IF a <= b THEN a ELSE b

(***************************************************************************)
(* MaskManager: the layer store                                            *)
(***************************************************************************)

\* load_static_masks: the static mask of every configured gray value that
\* has a readable file, binarized
load_static_masks(cache, sd, gray_values) ==
    [g \in (DOMAIN cache) \cup
           {x \in GrayValues :
               /\ \E k \in DOMAIN gray_values : gray_values[k] = x
               /\ sd[x] # NoFrame} |->
        IF /\ \E k \in DOMAIN gray_values : gray_values[k] = g
           /\ sd[g] # NoFrame
        THEN threshold(sd[g])
        ELSE cache[g]]

\* the loop over the frame files of a sequence with room for one frame only
RECURSIVE LoadFrames_capped(_, _, _, _, _)
LoadFrames_capped(ld, d, g, tok, fts) ==
    IF fts = << >> THEN ld
    ELSE LET f == FileAt(d, g, tok, Head(fts))
             frame_num == ParseInt(f.file)
             next ==
                 IF frame_num = ValueError THEN ld
                 ELSE IF f.img = NoFrame THEN ld
                 ELSE IF ld.loaded_frames >= 1 THEN ld
                 ELSE [frames |-> DictSet(ld.frames, frame_num, threshold(f.img)),
                       max_frame |-> Max(ld.max_frame, frame_num),
                       loaded_frames |-> ld.loaded_frames + 1]
         IN LoadFrames_capped(next, d, g, tok, Tail(fts))

\* load_sequence_frames, inner loop: for frame_path in frame_files.
\* ld is [frames, max_frame, loaded_frames] of the sequence being loaded.
RECURSIVE LoadFrames(_, _, _, _, _)
LoadFrames(ld, d, g, tok, fts) ==
    IF fts = << >> THEN ld
    ELSE LET f == FileAt(d, g, tok, Head(fts))
             frame_num == ParseInt(f.file)
             next ==
                 IF frame_num = ValueError THEN ld
                 ELSE IF f.img = NoFrame THEN ld
                 ELSE [frames |-> DictSet(ld.frames, frame_num, threshold(f.img)),
                       max_frame |-> Max(ld.max_frame, frame_num),
                       loaded_frames |-> ld.loaded_frames + 1]
         IN LoadFrames(next, d, g, tok, Tail(fts))

\* load_sequence_frames, middle loop: for seq_dir in seq_dirs.
\* st is [frames, maxes]: sequence_frames and sequence_max_frames.
RECURSIVE LoadDirs(_, _, _, _)
LoadDirs(st, d, g, toks) ==
    IF toks = << >> THEN st
    ELSE LET seq_num == ParseInt(Head(toks))
             ld == LoadFrames([frames |-> EmptyDict, max_frame |-> 0,
                               loaded_frames |-> 0],
                              d, g, Head(toks),
                              SortedTokens(FramesIn(d, g, Head(toks))))
             next ==
                 IF seq_num = ValueError THEN st
                 ELSE [frames |->
                          DictSet(st.frames, g,
                                  DictSet(st.frames[g], seq_num, ld.frames)),
                       maxes |->
                          IF ld.loaded_frames > 0
                          THEN DictSet(st.maxes, g,
                                       DictSet(st.maxes[g], seq_num,
                                               ld.max_frame))
                          ELSE st.maxes]
         IN LoadDirs(next, d, g, Tail(toks))

\* load_sequence_frames, outer loop: for gray_value in config.gray_values.
RECURSIVE LoadGrays(_, _, _)
LoadGrays(st, d, gray_values) ==
    IF gray_values = << >> THEN st
    ELSE LET g == Head(gray_values)
             next ==
                 IF SeqDirs(d, g) = {} THEN st
                 ELSE LoadDirs([frames |-> DictSet(st.frames, g, EmptyDict),
                                maxes |-> DictSet(st.maxes, g, EmptyDict)],
                               d, g, SortedTokens(SeqDirs(d, g)))
         IN LoadGrays(next, d, Tail(gray_values))

\* get_frame that answers for an unknown sequence with the frame of the
\* lowest loaded sequence of the gray value
get_frame_fallback(frames, maxes, gray_value, seq_num, frame_num) ==
    IF gray_value \notin DOMAIN frames THEN NoFrame
    ELSE IF DOMAIN maxes[gray_value] = {} THEN NoFrame
    ELSE LET s == IF seq_num \in DOMAIN maxes[gray_value] THEN seq_num
                  ELSE CHOOSE x \in DOMAIN maxes[gray_value] :
                          \A y \in DOMAIN maxes[gray_value] : x <= y
             actual_frame == Min(frame_num, maxes[gray_value][s])
         IN IF actual_frame \in DOMAIN frames[gray_value][s]
            THEN frames[gray_value][s][actual_frame]
            ELSE NoFrame

\* get_frame that answers for a frame missing below the maximum with the
\* frame of the maximum
get_frame_gap_to_max(frames, maxes, gray_value, seq_num, frame_num) ==
    IF gray_value \notin DOMAIN frames THEN NoFrame
    ELSE IF seq_num \notin DOMAIN frames[gray_value] THEN NoFrame
    ELSE LET max_frame == IF seq_num \in DOMAIN maxes[gray_value]
                          THEN maxes[gray_value][seq_num]
                          ELSE 0
         IN IF max_frame = 0 THEN NoFrame
            ELSE LET actual_frame == Min(frame_num, max_frame)
                 IN IF actual_frame \in DOMAIN frames[gray_value][seq_num]
                    THEN frames[gray_value][seq_num][actual_frame]
                    ELSE frames[gray_value][seq_num][max_frame]

\* MaskManager.get_frame
get_frame(frames, maxes, gray_value, seq_num, frame_num) ==
    IF gray_value \notin DOMAIN frames THEN NoFrame
    ELSE IF seq_num \notin DOMAIN frames[gray_value] THEN NoFrame
    ELSE LET max_frame == IF seq_num \in DOMAIN maxes[gray_value]
                          THEN maxes[gray_value][seq_num]
                          ELSE 0
         IN IF max_frame = 0 THEN NoFrame
            ELSE LET actual_frame == Min(frame_num, max_frame)
                 IN IF actual_frame \in DOMAIN frames[gray_value][seq_num]
                    THEN frames[gray_value][seq_num][actual_frame]
                    ELSE NoFrame

(***************************************************************************)
(* MaskManager: the compositor                                             *)
(***************************************************************************)

\* A Python dict with insertion order, as the sequence of its items
DictKeys(d) == {d[k][1] : k \in DOMAIN d}
DictGet(d, key) == d[CHOOSE k \in DOMAIN d : d[k][1] = key][2]

\* key=lambda x: self.config.gray_indexes.get(x, 0)
SortKey(cfg, g) ==
    IF g \in DOMAIN cfg.gray_indexes THEN cfg.gray_indexes[g] ELSE 0

\* place g in a list sorted by descending key, after the elements whose key
\* is at least its own (sorted is stable, also with reverse=True)
RECURSIVE InsertDescending(_, _, _)
InsertDescending(sorted, g, cfg) ==
    IF sorted = << >> THEN <<g>>
    ELSE IF SortKey(cfg, Head(sorted)) >= SortKey(cfg, g)
         THEN <<Head(sorted)>> \o InsertDescending(Tail(sorted), g, cfg)
         ELSE <<g>> \o sorted

\* place g in a list sorted by ascending key, after the elements whose key
\* is at most its own
RECURSIVE InsertAscending(_, _, _)
InsertAscending(sorted, g, cfg) ==
    IF sorted = << >> THEN <<g>>
    ELSE IF SortKey(cfg, Head(sorted)) <= SortKey(cfg, g)
         THEN <<Head(sorted)>> \o InsertAscending(Tail(sorted), g, cfg)
         ELSE <<g>> \o sorted

\* sorted(config.gray_values, key=...) without reverse=True
RECURSIVE sorted_gray_values_ascending(_, _)
sorted_gray_values_ascending(gray_values, cfg) ==
    IF gray_values = << >> THEN << >>
    ELSE LET n == Len(gray_values)
         IN InsertAscending(
                sorted_gray_values_ascending(SubSeq(gray_values, 1, n - 1), cfg),
                gray_values[n], cfg)

\* the ascending sort of the gray values, reversed: sorted(...)[::-1]
RECURSIVE AscendingSort(_, _)
AscendingSort(gray_values, cfg) ==
    IF gray_values = << >> THEN << >>
    ELSE LET n == Len(gray_values)
         IN InsertAscending(AscendingSort(SubSeq(gray_values, 1, n - 1), cfg),
                            gray_values[n], cfg)

sorted_gray_values_reversed(gray_values, cfg) ==
    [k \in 1 .. Len(gray_values) |->
        AscendingSort(gray_values, cfg)[Len(gray_values) + 1 - k]]

\* the gray values as the configuration lists them, not sorted
sorted_gray_values_as_listed(gray_values, cfg) == gray_values

\* sorted(config.gray_values, key=..., reverse=True)
RECURSIVE sorted_gray_values(_, _)
sorted_gray_values(gray_values, cfg) ==
    IF gray_values = << >> THEN << >>
    ELSE LET n == Len(gray_values)
         IN InsertDescending(
                sorted_gray_values(SubSeq(gray_values, 1, n - 1), cfg),
                gray_values[n], cfg)

\* the bitmaps of a layer when one missing frame empties its whole list
SequenceBitmaps_all_or_nothing(mgr, g, requests) ==
    IF \E k \in DOMAIN requests :
          get_frame(mgr.frames, mgr.maxes, g, requests[k][1], requests[k][2])
              = NoFrame
    THEN << >>
    ELSE [k \in DOMAIN requests |->
            get_frame(mgr.frames, mgr.maxes, g, requests[k][1], requests[k][2])]

\* the bitmaps get_frame finds for the requests of a layer, in request order
RECURSIVE SequenceBitmaps(_, _, _)
SequenceBitmaps(mgr, g, requests) ==
    IF requests = << >> THEN << >>
    ELSE LET frame == get_frame(mgr.frames, mgr.maxes, g,
                                Head(requests)[1], Head(requests)[2])
         IN (IF frame # NoFrame THEN <<frame>> ELSE << >>)
            \o SequenceBitmaps(mgr, g, Tail(requests))

\* active_frames of one gray value: its static mask, then its sequence frames
ActiveFrames(mgr, g, state) ==
    (IF g \in DOMAIN mgr.mask_cache THEN <<mgr.mask_cache[g]>> ELSE << >>)
    \o (IF g \in DictKeys(state)
        THEN SequenceBitmaps(mgr, g, DictGet(state, g))
        ELSE << >>)

\* np.maximum.reduce(active_frames) at one pixel
RECURSIVE MaxAt(_, _)
MaxAt(frames, p) ==
    IF Len(frames) = 1 THEN frames[1][p]
    ELSE Max(frames[1][p], MaxAt(Tail(frames), p))

\* the pixel-wise minimum of the frames at one pixel
RECURSIVE MinAt(_, _)
MinAt(frames, p) ==
    IF Len(frames) = 1 THEN frames[1][p]
    ELSE Min(frames[1][p], MinAt(Tail(frames), p))

\* combined_mask as the pixel-wise minimum of the active frames
Combine_minimum(frames) ==
    IF Len(frames) > 1 THEN [p \in Pixels |-> MinAt(frames, p)] ELSE frames[1]

\* combined_mask
Combine(frames) ==
    IF Len(frames) > 1 THEN [p \in Pixels |-> MaxAt(frames, p)] ELSE frames[1]

\* one pass of "for gray_value in sorted_gray_values" over final_mask
Burn(final_mask, mgr, g, state) ==
    LET active_frames == ActiveFrames(mgr, g, state)
    IN IF active_frames = << >> THEN final_mask
       ELSE IF g \in DOMAIN mgr.config.gray_indexes
            THEN [p \in Pixels |->
                    IF Combine(active_frames)[p] > 0
                    THEN mgr.config.gray_indexes[g]
                    ELSE final_mask[p]]
            ELSE final_mask

\* the loop over the sorted gray values
RECURSIVE BurnAll(_, _, _, _)
BurnAll(final_mask, mgr, order, state) ==
    IF order = << >> THEN final_mask
    ELSE BurnAll(Burn(final_mask, mgr, Head(order), state), mgr,
                 Tail(order), state)

\* final_mask of process_and_save for a non-empty state
Composite(mgr, state) ==
    BurnAll([p \in Pixels |-> Background], mgr,
            sorted_gray_values(mgr.config.gray_values, mgr.config), state)

\* what process_and_save reads of manager m
Manager(m) ==
    [config |-> config[m], mask_cache |-> mask_cache[m],
     frames |-> sequence_frames[m], maxes |-> sequence_max_frames[m]]

\* the layer store after a process_and_save that writes the output index
\* into combined_mask when it is the layer's one cached static mask
store_after_in_place(mgr, state) ==
    [mask_cache |->
        [g \in DOMAIN mgr.mask_cache |->
            IF /\ state # << >>
               /\ \E k \in DOMAIN mgr.config.gray_values :
                     mgr.config.gray_values[k] = g
               /\ g \in DOMAIN mgr.config.gray_indexes
               /\ Len(ActiveFrames(mgr, g, state)) = 1
            THEN [p \in Pixels |->
                    IF mgr.mask_cache[g][p] > 0
                    THEN mgr.config.gray_indexes[g]
                    ELSE mgr.mask_cache[g][p]]
            ELSE mgr.mask_cache[g]],
     frames |-> mgr.frames,
     maxes |-> mgr.maxes]

\* the layer store after process_and_save: the cached arrays are read
\* (active_frames holds them, combined_mask may be one of them) and only
\* final_mask is written
store_after(mgr, state) ==
    [mask_cache |-> mgr.mask_cache, frames |-> mgr.frames, maxes |-> mgr.maxes]

\* the stores of the managers after the process_and_save calls <<m, state>>
\* of calls, each manager called at most once
SetStores(calls) ==
    LET after(m) ==
          IF \E k \in DOMAIN calls : calls[k][1] = m
          THEN store_after(
                   Manager(m),
                   calls[CHOOSE k \in DOMAIN calls : calls[k][1] = m][2])
          ELSE store_after(Manager(m), << >>)
    IN /\ mask_cache' = [m \in Managers |-> after(m).mask_cache]
       /\ sequence_frames' = [m \in Managers |-> after(m).frames]
       /\ sequence_max_frames' = [m \in Managers |-> after(m).maxes]
       /\ UNCHANGED <<config, loaded>>

\* what cv2.imwrite can do: write the file, return False without writing,
\* or raise
ImwriteOutcomes == {"written", "not_written", "raises"}

\* process_and_save that saves also for an empty state
process_and_save_no_guard(mgr, index, dir, state, io) ==
    IF io = "raises"
    THEN [ret |-> NoPath, raised |-> TRUE, index |-> index, dir |-> dir]
    ELSE [ret |-> index + 1, raised |-> FALSE, index |-> index + 1,
          dir |-> IF io = "written"
                  THEN DictSet(dir, index + 1, Composite(mgr, state))
                  ELSE dir]

\* process_and_save that saves under the index it already holds
process_and_save_no_increment(mgr, index, dir, state, io) ==
    IF state = << >>
    THEN [ret |-> NoPath, raised |-> FALSE, index |-> index, dir |-> dir]
    ELSE IF io = "raises"
    THEN [ret |-> NoPath, raised |-> TRUE, index |-> index, dir |-> dir]
    ELSE [ret |-> Max(index, 1), raised |-> FALSE, index |-> Max(index, 1),
          dir |-> IF io = "written"
                  THEN DictSet(dir, Max(index, 1), Composite(mgr, state))
                  ELSE dir]

\* MaskManager.process_and_save on a manager with results_index index and
\* the results directory dir: [ret, raised, index, dir]
process_and_save(mgr, index, dir, state, io) ==
    IF state = << >>
    THEN [ret |-> NoPath, raised |-> FALSE, index |-> index, dir |-> dir]
    ELSE IF io = "raises"
    THEN [ret |-> NoPath, raised |-> TRUE, index |-> index, dir |-> dir]
    ELSE [ret |-> index + 1, raised |-> FALSE, index |-> index + 1,
          dir |-> IF io = "written"
                  THEN DictSet(dir, index + 1, Composite(mgr, state))
                  ELSE dir]

(***************************************************************************)
(* TMPLMonitor                                                             *)
(***************************************************************************)

\* active_sequences that lists every zone, the ones with counter 0 too
RECURSIVE active_sequences_all(_, _)
active_sequences_all(state, n) ==
    IF n = 0 THEN << >>
    ELSE active_sequences_all(state, n - 1) \o <<<<n - 1, state[n]>>>>

\* active_sequences: (seq_num, frame_num) for enumerate(state), frame_num > 0
RECURSIVE active_sequences(_, _)
active_sequences(state, n) ==
    IF n = 0 THEN << >>
    ELSE active_sequences(state, n - 1)
         \o (IF state[n] > 0 THEN <<<<n - 1, state[n]>>>> ELSE << >>)

\* config_state: every gray value of the configuration mapped to the list
RECURSIVE config_state(_, _)
config_state(gray_values, requests) ==
    IF gray_values = << >> THEN << >>
    ELSE <<<<Head(gray_values), requests>>>>
         \o config_state(Tail(gray_values), requests)

\* not state or not any(state)
Falsy(state) == \A k \in DOMAIN state : state[k] = 0

\* for name, manager in self.mask_managers.items(), from manager m on.
\* acc is [index, dir, calls, raised].
RECURSIVE ManagersLoop(_, _, _, _)
ManagersLoop(acc, m, state, ios) ==
    IF m > NumManagers \/ acc.raised THEN acc
    ELSE LET cs == config_state(config[m].gray_values,
                                active_sequences(state, Len(state)))
             r == process_and_save(Manager(m), acc.index[m], acc.dir, cs,
                                   ios[m])
         IN ManagersLoop(
                [index |-> [acc.index EXCEPT ![m] = r.index],
                 dir |-> r.dir,
                 calls |-> Append(acc.calls, <<m, cs>>),
                 raised |-> r.raised],
                m + 1, state, ios)

\* process_state without the comparison with previous_state
process_state_no_dedup(state, ios) ==
    IF Falsy(state)
    THEN [index |-> results_index, dir |-> results_dir, calls |-> << >>,
          raised |-> FALSE, previous |-> previous_state]
    ELSE LET r == ManagersLoop([index |-> results_index, dir |-> results_dir,
                                calls |-> << >>, raised |-> FALSE],
                               1, state, ios)
         IN [index |-> r.index, dir |-> r.dir, calls |-> r.calls,
             raised |-> r.raised,
             previous |-> IF r.raised THEN previous_state ELSE state]

\* process_state that records the vector before it calls the managers
process_state_record_first(state, ios) ==
    IF Falsy(state) \/ state = previous_state
    THEN [index |-> results_index, dir |-> results_dir, calls |-> << >>,
          raised |-> FALSE, previous |-> previous_state]
    ELSE LET r == ManagersLoop([index |-> results_index, dir |-> results_dir,
                                calls |-> << >>, raised |-> FALSE],
                               1, state, ios)
         IN [index |-> r.index, dir |-> r.dir, calls |-> r.calls,
             raised |-> r.raised, previous |-> state]

\* TMPLMonitor.process_state: [index, dir, calls, raised, previous], where
\* calls lists the process_and_save calls it made
process_state(state, ios) ==
    IF Falsy(state) \/ state = previous_state
    THEN [index |-> results_index, dir |-> results_dir, calls |-> << >>,
          raised |-> FALSE, previous |-> previous_state]
    ELSE LET r == ManagersLoop([index |-> results_index, dir |-> results_dir,
                                calls |-> << >>, raised |-> FALSE],
                               1, state, ios)
         IN [index |-> r.index, dir |-> r.dir, calls |-> r.calls,
             raised |-> r.raised,
             previous |-> IF r.raised THEN previous_state ELSE state]

(***************************************************************************)
(* Configurations and initial states                                       *)
(***************************************************************************)

\* MaskConfig as _initialize_mask_system builds it: gray_values lists the
\* keys of gray_indexes, in the order of the mapping file
MaskConfigs ==
    {c \in [gray_values : {<< >>, <<100>>, <<200>>, <<100, 200>>, <<200, 100>>},
            gray_indexes : UNION {[D -> OutputIndexes] : D \in SUBSET GrayValues}] :
        /\ DOMAIN c.gray_indexes = {c.gray_values[k] : k \in DOMAIN c.gray_values}}

\* a configuration without layers
EmptyConfig == [gray_values |-> << >>, gray_indexes |-> EmptyDict]
\* two layers, the one listed second with the larger index
TwoLayers == [gray_values |-> <<100, 200>>,
              gray_indexes |-> [g \in GrayValues |-> IF g = 100 THEN 5 ELSE 10]]
\* one layer
OneLayer == [gray_values |-> <<100>>, gray_indexes |-> [g \in {100} |-> 5]]

\* MaskManager.__init__ and TMPLMonitor.__init__, before any file exists
MaskInit ==
    /\ static_disk = [g \in GrayValues |-> NoFrame]
    /\ disk = {}
    /\ results_dir = EmptyDict
    /\ config = [m \in Managers |-> EmptyConfig]
    /\ mask_cache = [m \in Managers |-> EmptyDict]
    /\ sequence_frames = [m \in Managers |-> EmptyDict]
    /\ sequence_max_frames = [m \in Managers |-> EmptyDict]
    /\ results_index = [m \in Managers |-> 0]
    /\ loaded = {}
    /\ previous_state = NoState
    /\ call = [op |-> "none"]

\* sets of at most n frame files with distinct paths
Disks(candidates, n) ==
    {d \in SUBSET candidates :
        /\ Cardinality(d) <= n
        /\ \A f1, f2 \in d :
              (f1.gray = f2.gray /\ f1.dir = f2.dir /\ f1.file = f2.file)
                  => f1 = f2}

\* the store of a manager after load_static_masks and load_sequence_frames
LoadedStore(cfg, sd, d) ==
    LET st == LoadGrays([frames |-> EmptyDict, maxes |-> EmptyDict], d,
                        cfg.gray_values)
    IN [mask_cache |-> load_static_masks(EmptyDict, sd, cfg.gray_values),
        frames |-> st.frames, maxes |-> st.maxes]

\* the tracker alone: no file, no manager loaded
Init == TrackerInit /\ HistoryInit /\ MaskInit

\* The tracker driven on every zone.
SpecTracker == Init /\ [][UpdateAny]_vars

\* The tracker driven on zone 0 alone, over a longer time.
SpecDwell == Init /\ [][UpdateDwell]_vars

\* Two trackers called at the same times.
SpecTwin == Init /\ [][UpdateTwin]_vars

\* tracker.reset() called from outside
Reset ==
    /\ \E r \in {reset(TrackerState)} :
          /\ position_timers' = r.st.timers
          /\ last_increment_time' = r.st.lastinc
          /\ position_counters' = r.st.counters
          /\ last_log_state' = r.st.lastlog
          /\ log' = r.st.log
          /\ call' = [op |-> "reset", at |-> now, raised |-> r.raised]
    /\ UNCHANGED <<now, column_presence, historyVars, diskVars, storeVars,
                   results_dir, results_index, previous_state,
                   stageVars>>

ResetNext == UpdateAny \/ Reset

\* The tracker driven on every zone, and reset called between updates.
SpecReset == Init /\ [][ResetNext]_vars

Next == UpdateAny \/ UpdateDwell
Spec == Init /\ [][Next]_vars

(***************************************************************************)
(* Operations on the layer store                                           *)
(***************************************************************************)

\* a frame file appears in the panorama directory before the store is loaded
PutFile(f) ==
    /\ loaded = {}
    /\ Cardinality(disk) < MaxFiles
    /\ \A x \in disk : ~(x.gray = f.gray /\ x.dir = f.dir /\ x.file = f.file)
    /\ disk' = disk \cup {f}
    /\ UNCHANGED <<trackerVars, historyVars, static_disk, storeVars,
                   results_dir, results_index, previous_state, call,
                   stageVars>>

\* manager.load_sequence_frames()
LoadSequenceFrames(m) ==
    /\ m \notin loaded
    /\ LET st == LoadGrays([frames |-> sequence_frames[m],
                            maxes |-> sequence_max_frames[m]],
                           disk, config[m].gray_values)
       IN /\ sequence_frames' = [sequence_frames EXCEPT ![m] = st.frames]
          /\ sequence_max_frames' = [sequence_max_frames EXCEPT ![m] = st.maxes]
    /\ loaded' = loaded \cup {m}
    /\ call' = [op |-> "load_sequence_frames", m |-> m]
    /\ UNCHANGED <<trackerVars, historyVars, diskVars, config, mask_cache,
                   results_dir, results_index, previous_state,
                   stageVars>>

\* manager.get_frame(gray_value, seq_num, frame_num)
GetFrame(m, g, s, f) ==
    /\ call' = [op |-> "get_frame", m |-> m, gray |-> g, seq |-> s,
                frame |-> f,
                ret |-> get_frame(sequence_frames[m], sequence_max_frames[m],
                                  g, s, f)]
    /\ UNCHANGED <<trackerVars, historyVars, diskVars, storeVars, results_dir,
                   results_index, previous_state, stageVars>>

\* the store of manager 1, configured with both layers, filled from disk
StoreInit ==
    /\ TrackerInit /\ HistoryInit
    /\ static_disk = [g \in GrayValues |-> NoFrame]
    /\ disk = {}
    /\ results_dir = EmptyDict
    /\ config = [m \in Managers |-> IF m = 1 THEN TwoLayers ELSE EmptyConfig]
    /\ mask_cache = [m \in Managers |-> EmptyDict]
    /\ sequence_frames = [m \in Managers |-> EmptyDict]
    /\ sequence_max_frames = [m \in Managers |-> EmptyDict]
    /\ results_index = [m \in Managers |-> 0]
    /\ loaded = {}
    /\ previous_state = NoState
    /\ call = [op |-> "none"]

\* the frame files of the store specification: the sequences of layer 100
StoreFiles == {f \in FrameFiles : f.gray = 100 /\ f.img # ImgFull}
\* the frames asked of get_frame
QuerySeqs == {0, 1}
QueryFrames == 0 .. 3

StoreNext ==
    \/ \E f \in StoreFiles : PutFile(f)
    \/ LoadSequenceFrames(1)
    \/ \E g \in GrayValues, s \in QuerySeqs, f \in QueryFrames :
          GetFrame(1, g, s, f)

\* Files put on disk, the store loaded from them, frames asked of it.
SpecStore == StoreInit /\ [][StoreNext]_vars

(***************************************************************************)
(* Operations of the compositor and the monitor                            *)
(***************************************************************************)

\* manager.process_and_save(state)
ProcessAndSave(m, state, io) ==
    /\ \E r \in {process_and_save(Manager(m), results_index[m], results_dir,
                                  state, io)} :
          /\ results_index' = [results_index EXCEPT ![m] = r.index]
          /\ results_dir' = r.dir
          /\ call' = [op |-> "process_and_save", m |-> m, state |-> state,
                      ret |-> r.ret, raised |-> r.raised,
                      wrote |-> (state # << >> /\ io = "written")]
    /\ SetStores(<<<<m, state>>>>)
    /\ UNCHANGED <<trackerVars, historyVars, diskVars, previous_state, stageVars>>

\* monitor.process_state(state), while no manager has saved more than
\* MaxResults files
ProcessState(state, ios) ==
    /\ \E r \in {process_state(state, ios)} :
          /\ \A m \in Managers : r.index[m] <= MaxResults
          /\ results_index' = r.index
          /\ results_dir' = r.dir
          /\ previous_state' = r.previous
          /\ call' = [op |-> "process_state", state |-> state,
                      calls |-> r.calls, raised |-> r.raised,
                      wrote |-> [k \in DOMAIN r.calls |->
                                   /\ r.calls[k][2] # << >>
                                   /\ ios[r.calls[k][1]] = "written"]]
          /\ SetStores(r.calls)
    /\ UNCHANGED <<trackerVars, historyVars, diskVars, stageVars>>

\* the request lists of the model: a frame, and a frame beyond the maximum
\* with a sequence that does not exist
RequestLists == { <<<<0, 1>>>>, <<<<0, 2>>, <<1, 1>>>> }

\* the state mappings given to process_and_save: any keys in any order
StateMappings ==
    {<< >>}
    \cup {<<<<g, r>>>> : g \in GrayValues, r \in RequestLists}
    \cup {d \in {<<<<g1, r1>>, <<g2, r2>>>> :
                    g1 \in GrayValues, g2 \in GrayValues,
                    r1 \in RequestLists, r2 \in RequestLists} :
             d[1][1] # d[2][1]}

\* the sequence frame files of the compositor specification
CompositeFiles ==
    {f \in FrameFiles :
        f.dir = "0" /\ f.file = "1" /\ f.img \in {ImgLast, ImgFull}}

\* one manager, loaded from some static masks and sequence frames
CompositeInit ==
    /\ TrackerInit /\ HistoryInit
    /\ static_disk \in [GrayValues -> {NoFrame, ImgFirst}]
    /\ disk \in Disks(CompositeFiles, MaxFiles)
    /\ results_dir = EmptyDict
    /\ \E c \in MaskConfigs :
          /\ config = [m \in Managers |-> IF m = 1 THEN c ELSE EmptyConfig]
          /\ LET st == LoadedStore(c, static_disk, disk)
             IN /\ mask_cache =
                      [m \in Managers |-> IF m = 1 THEN st.mask_cache ELSE EmptyDict]
                /\ sequence_frames =
                      [m \in Managers |-> IF m = 1 THEN st.frames ELSE EmptyDict]
                /\ sequence_max_frames =
                      [m \in Managers |-> IF m = 1 THEN st.maxes ELSE EmptyDict]
    /\ results_index = [m \in Managers |-> 0]
    /\ loaded = {1}
    /\ previous_state = NoState
    /\ call = [op |-> "none"]

CompositeNext ==
    \E state \in StateMappings, io \in ImwriteOutcomes :
        /\ results_index[1] < MaxSaves
        /\ ProcessAndSave(1, state, io)

\* process_and_save called on one loaded manager.
SpecComposite == CompositeInit /\ [][CompositeNext]_vars

\* the files of the monitor specification
MonitorStatic == [g \in GrayValues |-> IF g = 100 THEN ImgFirst ELSE NoFrame]
MonitorDisk == {[gray |-> 200, dir |-> "0", file |-> "1", img |-> ImgLast]}
MonitorConfigs == {EmptyConfig, OneLayer, TwoLayers}

\* the state vectors given to process_state: empty, or one counter per zone
CounterValues == {0, 1}
CounterVectors == {<< >>} \cup [1 .. NumZones -> CounterValues]

\* the files, the managers loaded from them and the monitor as constructed
MonitorMasks ==
    /\ static_disk = MonitorStatic
    /\ disk = MonitorDisk
    /\ results_dir = EmptyDict
    /\ \E c \in MonitorConfigs :
          config = [m \in Managers |-> IF m = 1 THEN c ELSE TwoLayers]
    /\ mask_cache =
          [m \in Managers |->
              LoadedStore(config[m], static_disk, disk).mask_cache]
    /\ sequence_frames =
          [m \in Managers |-> LoadedStore(config[m], static_disk, disk).frames]
    /\ sequence_max_frames =
          [m \in Managers |-> LoadedStore(config[m], static_disk, disk).maxes]
    /\ results_index = [m \in Managers |-> 0]
    /\ loaded = Managers
    /\ previous_state = NoState
    /\ call = [op |-> "none"]

\* a monitor whose managers are loaded
MonitorInit == TrackerInit /\ HistoryInit /\ MonitorMasks

\* what cv2.imwrite does in the calls of one process_state: at most one
\* manager's write fails
WriteOutcomes ==
    {[m \in Managers |-> IF m = bad THEN io ELSE "written"] :
        bad \in Managers, io \in ImwriteOutcomes}

MonitorNext ==
    \/ \E state \in CounterVectors, ios \in WriteOutcomes :
          ProcessState(state, ios)
    \/ \E io \in ImwriteOutcomes,
          state \in {<< >>, <<<<100, <<<<0, 1>>>>>>>>} :
          /\ results_index[1] < MaxResults
          /\ ProcessAndSave(1, state, io)

\* process_state and process_and_save called on a monitor.
SpecMonitor == MonitorInit /\ [][MonitorNext]_vars

(***************************************************************************)
(* DepthMaskAdapter.process_frame, run by IntegratedDepth._processing_loop *)
(***************************************************************************)

\* what analyze_columns returns: one 0/1 entry per column
ColumnVectors == [1 .. NumZones -> {0, 1}]

\* depth_tracker.position_counters as the list process_state is given: the
\* list object itself, not a copy
CountersList == [k \in 1 .. NumZones |-> position_counters[k - 1]]

\* History of a process_frame cycle: changed, its update incremented a
\* counter; since_write, a counter was incremented since the last cycle that
\* wrote a file; since_done, a counter was incremented since the last cycle
\* whose process_state went through every manager; tried, process_state went
\* on to the managers; wrote, a composite file was written; done,
\* process_state went through every manager; ended, the cycle is over.
\* CycleStart is the history as a cycle starts with an update that
\* incremented a counter or not.
CycleStart(incremented) ==
    [changed |-> incremented,
     since_write |-> incremented \/ (cycle.since_write /\ ~cycle.wrote),
     since_done |-> incremented \/ (cycle.since_done /\ ~cycle.done),
     tried |-> FALSE, wrote |-> FALSE, done |-> FALSE, ended |-> FALSE]

\* the checks of process_state without the comparison with previous_state
NoOpChecks_falsy_only(state) == Falsy(state)

\* process_state: `if not state or not any(state): return` and
\* `if state == self.previous_state: return`
NoOpChecks(state) == Falsy(state) \/ state = previous_state

\* an update call that may run while process_frame is anywhere
CanUpdate_anywhere(pc) == TRUE

\* update is called by process_frame alone, as its first step, and
\* process_frame by the one thread of _processing_loop
CanUpdate(pc) == pc = "update"

\* process_frame: column_presence = analyze_columns(...);
\* depth_tracker.update(column_presence), while no manager has saved
\* MaxResults files
FrameUpdate ==
    /\ CanUpdate(frame_pc)
    /\ \A m \in Managers : results_index[m] < MaxResults
    /\ \E p \in ColumnVectors, dt \in WholeGaps : update(p, dt, MaxTime)
    /\ frame_pc' = IF frame_pc = "update" THEN "read" ELSE frame_pc
    /\ cycle' = CycleStart(position_counters' # position_counters)
    /\ UNCHANGED <<run_start, long_run, first_run, last_inc_ever, twinVars,
                   active_seq, next_manager, entry_state, maskVars,
                   stageVars>>

\* frame_num = min(count, 10)
MaxFrameNumber == 10

\* active_sequences of process_frame: (i, min(count, 10)) for
\* enumerate(counters), count > 0
RECURSIVE frame_active_sequences(_, _)
frame_active_sequences(counters, n) ==
    IF n = 0 THEN << >>
    ELSE frame_active_sequences(counters, n - 1)
         \o (IF counters[n] > 0
             THEN <<<<n - 1, Min(counters[n], MaxFrameNumber)>>>>
             ELSE << >>)

\* process_frame: counters = depth_tracker.position_counters; when its
\* active_sequences is not empty, process_state(counters) up to its try block
FrameRead ==
    /\ frame_pc = "read"
    /\ IF \/ frame_active_sequences(CountersList, NumZones) = << >>
          \/ NoOpChecks(CountersList)
       THEN /\ frame_pc' = "update"
            /\ cycle' = [cycle EXCEPT !.ended = TRUE]
            /\ UNCHANGED <<active_seq, next_manager, entry_state>>
       ELSE /\ frame_pc' = "managers"
            /\ cycle' = [cycle EXCEPT !.tried = TRUE]
            /\ active_seq' = active_sequences(CountersList, NumZones)
            /\ next_manager' = 1
            /\ entry_state' = CountersList
    /\ UNCHANGED <<trackerVars, run_start, long_run, first_run,
                   last_inc_ever, twinVars, maskVars, stageVars>>

\* what cv2.imwrite does in the pipeline: write the file, or raise
FrameOutcomes == {"written", "raises"}

\* process_state: one pass of the loop over the managers; an exception of
\* process_and_save ends process_state and is logged by process_frame
FrameManager ==
    /\ frame_pc = "managers"
    /\ \E io \in FrameOutcomes :
       \E r \in {process_and_save(
                    Manager(next_manager), results_index[next_manager],
                    results_dir,
                    config_state(config[next_manager].gray_values, active_seq),
                    io)} :
          /\ results_index' = [results_index EXCEPT ![next_manager] = r.index]
          /\ results_dir' = r.dir
          /\ cycle' = [cycle EXCEPT
                          !.wrote = @ \/ (r.ret # NoPath /\ io = "written"),
                          !.ended = r.raised]
          /\ IF r.raised
             THEN /\ frame_pc' = "update"
                  /\ call' = [op |-> "process_frame", state |-> entry_state,
                              recorded |-> FALSE]
                  /\ UNCHANGED next_manager
             ELSE /\ frame_pc' = IF next_manager = NumManagers
                                 THEN "record" ELSE "managers"
                  /\ next_manager' = next_manager + 1
                  /\ UNCHANGED call
    /\ SetStores(<<<<next_manager,
                     config_state(config[next_manager].gray_values,
                                  active_seq)>>>>)
    /\ UNCHANGED <<trackerVars, run_start, long_run, first_run,
                   last_inc_ever, twinVars, active_seq, entry_state,
                   diskVars, previous_state, stageVars>>

\* process_state: self.previous_state = state.copy()
FrameRecord ==
    /\ frame_pc = "record"
    /\ previous_state' = CountersList
    /\ call' = [op |-> "process_frame", state |-> entry_state,
                recorded |-> TRUE]
    /\ frame_pc' = "update"
    /\ cycle' = [cycle EXCEPT !.done = TRUE, !.ended = TRUE]
    /\ UNCHANGED <<trackerVars, run_start, long_run, first_run,
                   last_inc_ever, twinVars, active_seq, next_manager,
                   entry_state, diskVars, storeVars, results_dir,
                   results_index, stageVars>>

PipelineNext == FrameUpdate \/ FrameRead \/ FrameManager \/ FrameRecord

\* The processing loop: update, then process_state on the counters.
SpecPipeline == MonitorInit /\ [][PipelineNext]_vars

(***************************************************************************)
(* The processing loop after a long dwell                                  *)
(***************************************************************************)

\* the largest number of increments of the held zone at the start
MaxHeld == 11

\* the time of the k-th increment of a zone reported present from time 0 on
\* in calls one increment interval apart
HeldTime(k) ==
    IF k = 0 THEN 0 ELSE threshold_time + (k - 1) * increment_interval

\* the tracker after update([1]) at time 0 and at the times of k increments
RECURSIVE HeldAfter(_)
HeldAfter(k) ==
    IF k = 0
    THEN UpdateLoop([timers |-> [i \in Zones |-> None],
                     lastinc |-> [i \in Zones |-> None],
                     counters |-> [i \in Zones |-> 0],
                     lastlog |-> NoLine,
                     log |-> << >>],
                    NumZones, <<1>>, 0)
    ELSE UpdateLoop(HeldAfter(k - 1), NumZones, <<1>>, HeldTime(k))

\* the numbers of increments the held zone starts with
HeldCounts == (MaxHeld - 2) .. MaxHeld

\* the time up to which the loop is followed
LimitHorizon == HeldTime(MaxHeld) + 2 * increment_interval

\* A tracker whose zone 0 has been held for some of HeldCounts increments,
\* in a loop whose process_state has raised in every cycle so far.
LimitInit ==
    /\ \E k \in HeldCounts :
          /\ now = HeldTime(k)
          /\ column_presence = <<1>>
          /\ position_timers = HeldAfter(k).timers
          /\ last_increment_time = HeldAfter(k).lastinc
          /\ position_counters = HeldAfter(k).counters
          /\ last_log_state = HeldAfter(k).lastlog
          /\ log = HeldAfter(k).log
    /\ HistoryInit
    /\ MonitorMasks

\* process_frame: analyze_columns and depth_tracker.update, one increment
\* interval after the previous call
LimitUpdate ==
    /\ CanUpdate(frame_pc)
    /\ \A m \in Managers : results_index[m] < MaxResults
    /\ \E p \in ColumnVectors : update(p, increment_interval, LimitHorizon)
    /\ frame_pc' = IF frame_pc = "update" THEN "read" ELSE frame_pc
    /\ cycle' = CycleStart(position_counters' # position_counters)
    /\ UNCHANGED <<run_start, long_run, first_run, last_inc_ever, twinVars,
                   active_seq, next_manager, entry_state, maskVars,
                   stageVars>>

LimitNext == LimitUpdate \/ FrameRead \/ FrameManager \/ FrameRecord

\* The processing loop with counters around the frame limit.
SpecLimit == LimitInit /\ [][LimitNext]_vars

\* ---------------------------------------------------------------------
\* IntegratedSpade: the watcher that turns mask files into output images
\* ---------------------------------------------------------------------

\* the most mask files written in a run
MaxMasks == 3

\* the highest number file_counter reaches in a run
MaxFileCounter == 4

\* the width of an output image's number, f"{n:09d}"
NameDigits == 9

RECURSIVE Pow10(_)
\* 10 ** k
Pow10(k) == IF k = 0 THEN 1 ELSE 10 * Pow10(k - 1)

\* f"{n:09d}.jpg": the nine decimal digits of n, most significant first
FileName(n) == [i \in 1 .. NameDigits |-> (n \div Pow10(NameDigits - i)) % 10]

\* mutant of Oldest: the latest file first
Oldest_newest(files) ==
    CHOOSE f \in files : \A g \in files : g.ctime <= f.ctime

\* sorted(input_dir.glob("*.bmp"), key=st_ctime)[0]
Oldest(files) ==
    CHOOSE f \in files : \A g \in files : f.ctime <= g.ctime

\* SpadeAdapter.process_mask: True when the image was generated and
\* written, False when the mask cannot be read or anything raised
adapter_process_mask(f) == f.readable

\* IntegratedSpade._get_next_filename: the name, and the counter after it
get_next_filename(counter) ==
    [name |-> FileName(counter), file_counter |-> counter + 1]

\* IntegratedSpade.process_mask: the output name is taken first, then the
\* adapter is asked
process_mask(f, counter) ==
    LET nf == get_next_filename(counter)
        ok == adapter_process_mask(f)
    IN  [result |-> ok,
         file_counter |-> nf.file_counter,
         output |-> IF ok THEN {[name |-> nf.name, mask |-> f.ctime]}
                          ELSE {}]

\* IntegratedSpade.watch_and_process: nothing without a mask file; else the
\* oldest file is processed and removed when process_mask returned True
watch_and_process(files, counter) ==
    IF files = {}
    THEN [handled |-> FALSE, input |-> files, file_counter |-> counter,
          output |-> {}]
    ELSE LET mask_file == Oldest(files)
             r == process_mask(mask_file, counter)
         IN  [handled |-> TRUE, mask |-> mask_file, result |-> r.result,
              input |-> IF r.result THEN files \ {mask_file} ELSE files,
              file_counter |-> r.file_counter,
              output |-> r.output]

\* the compositor writes one more mask file into the input directory, one
\* that cv2.imread can read or one that it cannot
WriteMask ==
    /\ mask_clock < MaxMasks
    /\ \E readable \in BOOLEAN :
          spade_input_dir' = spade_input_dir \cup
              {[ctime |-> mask_clock + 1, readable |-> readable]}
    /\ mask_clock' = mask_clock + 1
    /\ UNCHANGED <<spade_output_dir, file_counter, spade_call, processed>>
    /\ UNCHANGED <<trackerVars, historyVars, maskVars, playerVars, depthVars>>

\* one call of watch_and_process from the main loop
WatchAndProcess ==
    /\ file_counter <= MaxFileCounter
    /\ \E r \in {watch_and_process(spade_input_dir, file_counter)} :
          /\ spade_input_dir' = r.input
          /\ spade_output_dir' = spade_output_dir \cup r.output
          /\ file_counter' = r.file_counter
          /\ spade_call' = [op |-> "watch", before |-> spade_input_dir,
                            counter |-> file_counter, call |-> r]
          /\ processed' = IF r.handled /\ r.result
                          THEN Append(processed, r.mask.ctime)
                          ELSE processed
    /\ UNCHANGED mask_clock
    /\ UNCHANGED <<trackerVars, historyVars, maskVars, playerVars, depthVars>>

SpadeNext == WriteMask \/ WatchAndProcess

\* the watcher and the compositor that feeds it
SpecSpade == Init /\ [][SpadeNext]_vars

\* ---------------------------------------------------------------------
\* ImageSequencePlayer: the loader thread, the display and set_directory
\* ---------------------------------------------------------------------

\* the directories set_directory is called with
NumDirs == 2

Dirs == 1 .. NumDirs

\* the most images a directory receives in a run
MaxIndex == 5

\* IntegratedConfig.buffer_size, the capacity of frame_buffer
buffer_size == 4

\* IntegratedConfig.frame_step
frame_step == 1

\* the index start_loader_thread is called with
start_index == 1

\* the numbers of the images present in directory d
ImagesIn(d) == {n \in 1 .. MaxIndex + 1 : <<d, FileName(n)>> \in sequence_dirs}

\* the synthesis stage writes the next image into one of the directories
WriteImage ==
    /\ \E d \in Dirs :
          /\ Cardinality(ImagesIn(d)) < MaxIndex
          /\ sequence_dirs' = sequence_dirs \cup
                 {<<d, FileName(Cardinality(ImagesIn(d)) + 1)>>}
    /\ UNCHANGED <<frame_buffer, current_directory, loader, enqueued>>
    /\ UNCHANGED <<trackerVars, historyVars, maskVars, spadeVars, depthVars>>

\* mutant of LoaderFull: the loader goes on without looking at the buffer
LoaderFull_unchecked ==
    /\ loader.pc = "full"
    /\ loader' = [loader EXCEPT !.pc = "dir"]
    /\ UNCHANGED <<frame_buffer, current_directory, sequence_dirs, enqueued>>
    /\ UNCHANGED <<trackerVars, historyVars, maskVars, spadeVars, depthVars>>

\* _buffer_loader_thread, the test of frame_buffer.full(): the loader
\* sleeps and starts over while the buffer is full
LoaderFull ==
    /\ loader.pc = "full"
    /\ loader' = IF Len(frame_buffer) >= buffer_size
                 THEN loader
                 ELSE [loader EXCEPT !.pc = "dir"]
    /\ UNCHANGED <<frame_buffer, current_directory, sequence_dirs, enqueued>>
    /\ UNCHANGED <<trackerVars, historyVars, maskVars, spadeVars, depthVars>>

\* _buffer_loader_thread, the read of current_directory: without a current
\* sequence or a directory the loader starts over, else it builds the path
\* of image current_index
LoaderPath ==
    /\ loader.pc = "dir"
    /\ \E current_seq \in BOOLEAN :
          loader' = IF ~current_seq \/ current_directory = None
                    THEN [loader EXCEPT !.pc = "full"]
                    ELSE [loader EXCEPT
                             !.pc = "exists",
                             !.path = <<current_directory,
                                        FileName(loader.current_index)>>]
    /\ UNCHANGED <<frame_buffer, current_directory, sequence_dirs, enqueued>>
    /\ UNCHANGED <<trackerVars, historyVars, maskVars, spadeVars, depthVars>>

\* _buffer_loader_thread, os.path.exists(image_path)
LoaderExists ==
    /\ loader.pc = "exists"
    /\ loader' = IF loader.path \in sequence_dirs
                 THEN [loader EXCEPT !.pc = "load"]
                 ELSE [loader EXCEPT !.pc = "full"]
    /\ UNCHANGED <<frame_buffer, current_directory, sequence_dirs, enqueued>>
    /\ UNCHANGED <<trackerVars, historyVars, maskVars, spadeVars, depthVars>>

\* _buffer_loader_thread, texture_manager.load_image: a texture of the
\* image at image_path, or none (the empty tuple)
LoaderLoad ==
    /\ loader.pc = "load"
    /\ \E texture \in {<<loader.path>>, << >>} :
          loader' = IF texture # << >>
                    THEN [loader EXCEPT !.pc = "put"]
                    ELSE [loader EXCEPT !.pc = "full"]
    /\ UNCHANGED <<frame_buffer, current_directory, sequence_dirs, enqueued>>
    /\ UNCHANGED <<trackerVars, historyVars, maskVars, spadeVars, depthVars>>

\* _buffer_loader_thread, frame_buffer.put((current_index, texture)), which
\* waits while the queue is full, and current_index += frame_step
LoaderPut ==
    /\ loader.pc = "put"
    /\ Len(frame_buffer) < buffer_size
    /\ frame_buffer' = Append(frame_buffer,
                              [index |-> loader.current_index,
                               texture |-> loader.path])
    /\ enqueued' = Append(enqueued, loader.current_index)
    /\ loader' = [loader EXCEPT
                     !.pc = "full",
                     !.current_index = loader.current_index + frame_step]
    /\ UNCHANGED <<current_directory, sequence_dirs>>
    /\ UNCHANGED <<trackerVars, historyVars, maskVars, spadeVars, depthVars>>

\* get_next_display_frame: the display takes the oldest frame of the buffer
GetNextDisplayFrame ==
    /\ frame_buffer # << >>
    /\ frame_buffer' = Tail(frame_buffer)
    /\ UNCHANGED <<current_directory, sequence_dirs, loader, enqueued>>
    /\ UNCHANGED <<trackerVars, historyVars, maskVars, spadeVars, depthVars>>

\* set_directory(new_directory): the buffer is emptied, then the directory
\* is replaced; the loader is not held back meanwhile and keeps its locals
SetDirectory ==
    /\ \E new_directory \in Dirs \cup {None} :
          current_directory' = new_directory
    /\ frame_buffer' = << >>
    /\ UNCHANGED <<sequence_dirs, loader, enqueued>>
    /\ UNCHANGED <<trackerVars, historyVars, maskVars, spadeVars, depthVars>>

PlayerNext ==
    \/ WriteImage
    \/ LoaderFull
    \/ LoaderPath
    \/ LoaderExists
    \/ LoaderLoad
    \/ LoaderPut
    \/ GetNextDisplayFrame
    \/ SetDirectory

\* the player with its loader thread, its display and its image source
SpecPlayer == Init /\ [][PlayerNext]_vars

\* ---------------------------------------------------------------------
\* IntegratedDepth: start(), stop() and the processing thread
\* ---------------------------------------------------------------------

\* the most process_frame calls in a run
MaxFrames == 3

\* the threads that are inside _processing_loop's while loop
InLoop == {t \in ThreadIds : threads[t] \in {"check", "frame", "quit", "failed"}}

\* start(): nothing while _running; when adapter.initialize() fails the
\* error state is set and no thread is made; else _running is set and a
\* new thread is stored in _thread and started
Start ==
    /\ ~joining
    /\ IF running
       THEN UNCHANGED <<running, thread, error_state, threads, stopped>>
       ELSE \E initialized \in BOOLEAN :
               IF ~initialized
               THEN /\ error_state' = TRUE
                    /\ UNCHANGED <<running, thread, threads, stopped>>
               ELSE /\ \E t \in ThreadIds :
                          /\ threads[t] = "unborn"
                          /\ \A u \in ThreadIds :
                                 threads[u] = "unborn" => t <= u
                          /\ thread' = t
                          /\ threads' = [threads EXCEPT ![t] = "check"]
                    /\ running' = TRUE
                    /\ stopped' = FALSE
                    /\ UNCHANGED error_state
    /\ UNCHANGED <<joining, frames_processed>>
    /\ UNCHANGED <<trackerVars, historyVars, maskVars, spadeVars, playerVars>>

\* _processing_loop, the test of the while loop
LoopCheck(t) ==
    /\ threads[t] = "check"
    /\ threads' = [threads EXCEPT ![t] = IF running THEN "frame" ELSE "done"]
    /\ UNCHANGED <<running, thread, error_state, joining, frames_processed,
                   stopped>>
    /\ UNCHANGED <<trackerVars, historyVars, maskVars, spadeVars, playerVars>>

\* _processing_loop, one round: adapter.process_frame() updates the tracker
\* and the monitor; the round ends normally, with the quit key, or with an
\* exception
ProcessFrame(t) ==
    /\ threads[t] = "frame"
    /\ frames_processed < MaxFrames
    /\ frames_processed' = frames_processed + 1
    /\ \E outcome \in {"check", "quit", "failed"} :
          threads' = [threads EXCEPT ![t] = outcome]
    /\ UNCHANGED <<running, thread, error_state, joining, stopped>>
    /\ UNCHANGED <<trackerVars, historyVars, maskVars, spadeVars, playerVars>>

\* _processing_loop, leaving the loop by itself: _running = False and
\* break, with _error_state set after an exception
LoopExit(t) ==
    /\ threads[t] \in {"quit", "failed"}
    /\ running' = FALSE
    /\ error_state' = (error_state \/ threads[t] = "failed")
    /\ threads' = [threads EXCEPT ![t] = "done"]
    /\ UNCHANGED <<thread, joining, frames_processed, stopped>>
    /\ UNCHANGED <<trackerVars, historyVars, maskVars, spadeVars, playerVars>>

\* stop(), up to the join: _running = False; without a thread stop()
\* returns after the cleanup
StopBegin ==
    /\ ~joining
    /\ running' = FALSE
    /\ IF thread # None
       THEN joining' = TRUE /\ UNCHANGED stopped
       ELSE stopped' = TRUE /\ UNCHANGED joining
    /\ UNCHANGED <<thread, error_state, threads, frames_processed>>
    /\ UNCHANGED <<trackerVars, historyVars, maskVars, spadeVars, playerVars>>

\* mutant of StopJoin: stop() does not wait for the thread
StopJoin_no_wait ==
    /\ joining
    /\ thread' = None
    /\ joining' = FALSE
    /\ stopped' = TRUE
    /\ UNCHANGED <<running, error_state, threads, frames_processed>>
    /\ UNCHANGED <<trackerVars, historyVars, maskVars, spadeVars, playerVars>>

\* stop(), from the join: _thread.join() returns once the thread has
\* ended, then _thread = None and the cleanup
StopJoin ==
    /\ joining
    /\ threads[thread] = "done"
    /\ thread' = None
    /\ joining' = FALSE
    /\ stopped' = TRUE
    /\ UNCHANGED <<running, error_state, threads, frames_processed>>
    /\ UNCHANGED <<trackerVars, historyVars, maskVars, spadeVars, playerVars>>

DepthNext ==
    \/ Start
    \/ StopBegin
    \/ StopJoin
    \/ \E t \in ThreadIds : LoopCheck(t)
    \/ \E t \in ThreadIds : ProcessFrame(t)
    \/ \E t \in ThreadIds : LoopExit(t)

\* the depth system driven by start() and stop() calls of the display
SpecDepth == Init /\ [][DepthNext]_vars

(***************************************************************************)
(* Claims on DepthTracker                                                  *)
(***************************************************************************)

\* the zone has been reported present in every call since its first present
\* call, the latest call included
HeldSinceFirst(i) == first_run[i] = "first" /\ run_start[i] # None

\* time from the first call of the current run to the latest call
HeldFor(i) == now - run_start[i]

\* N such that the zone has been held threshold_time + N * increment_interval
HeldIntervals(i) == (HeldFor(i) - threshold_time) \div increment_interval

\* C2: a zone whose runs of consecutive present calls all span less than
\* threshold_time keeps its counter at 0. (SpecDwell)
C2_ShortRunsNeverCount ==
    \A i \in Zones : ~long_run[i] => position_counters[i] = 0

\* C3 as stated: a zone held present in every call for threshold_time +
\* N * increment_interval since its first present call has a counter within
\* 1 of N. (SpecDwell)
C3_HeldCountWithinOne ==
    \A i \in Zones :
        (/\ HeldSinceFirst(i)
         /\ HeldFor(i) >= threshold_time
         /\ (HeldFor(i) - threshold_time) % increment_interval = 0)
        => /\ position_counters[i] >= HeldIntervals(i) - 1
           /\ position_counters[i] <= HeldIntervals(i) + 1

\* C3 as amended: such a zone has a counter of at least 1 and at most N + 1,
\* and a counter of 0 before threshold_time has elapsed. (SpecDwell)
C3_HeldCountAtMost ==
    \A i \in Zones :
        HeldSinceFirst(i) =>
            IF HeldFor(i) >= threshold_time
            THEN /\ position_counters[i] >= 1
                 /\ position_counters[i] <= HeldIntervals(i) + 1
            ELSE position_counters[i] = 0

\* zone 0 held for threshold_time + 2 intervals and counted 3 times
C3_Witness ==
    /\ HeldSinceFirst(0)
    /\ HeldFor(0) = threshold_time + 2 * increment_interval
    /\ position_counters[0] = 3

\* C4: an update call never lowers a counter, and a call that reports a zone
\* absent leaves its counter as it was and clears its two timers.
\* (SpecTracker)
C4_AbsentKeepsCounter ==
    [][\A i \in Zones :
          /\ position_counters'[i] >= position_counters[i]
          /\ (i < Len(column_presence') /\ column_presence'[i + 1] # 1)
              => /\ position_counters'[i] = position_counters[i]
                 /\ position_timers'[i] = None
                 /\ last_increment_time'[i] = None]_vars

\* zone 0 has counted, and the latest call reported it absent
C4_Witness ==
    /\ position_counters[0] >= 1
    /\ Len(column_presence) >= 1
    /\ column_presence[1] = 0
    /\ position_timers[0] = None

\* C5: two successive increments of one zone's counter are at least
\* increment_interval apart. (SpecDwell)
C5_IncrementsSpaced ==
    [][\A i \in Zones :
          (position_counters'[i] > position_counters[i] /\ last_inc_ever[i] # None)
              => now' - last_inc_ever[i] >= increment_interval]_vars

\* zone 0 was incremented in an earlier dwell, left it, and has just been
\* incremented for the first time in a new dwell
C5_Witness ==
    /\ position_counters[0] >= 2
    /\ first_run[0] = "later"
    /\ last_inc_ever[0] = now
    /\ position_timers[0] = now - threshold_time

\* C6: a call that leaves the counters unchanged appends nothing to the log,
\* and no two consecutive lines of the log are equal. (SpecTracker)
C6_LogOnlyOnChange ==
    [][/\ position_counters' = position_counters => log' = log
       /\ \A k \in 1 .. (Len(log') - 1) : log'[k] # log'[k + 1]]_vars

\* two lines logged, and then a call that changed no counter
C6_Witness ==
    /\ Len(log) >= 2
    /\ log[Len(log)] = position_counters
    /\ \A i \in Zones : position_timers[i] = None


(***************************************************************************)
(* Claims on MaskManager.process_and_save                                  *)
(***************************************************************************)

\* the latest call was a process_and_save that wrote its composite file
WroteComposite ==
    /\ call.op = "process_and_save"
    /\ call.ret # NoPath
    /\ call.ret \in DOMAIN results_dir

\* layer g of manager m is configured and its combined mask is nonzero at p
Paints(m, g, state, p) ==
    /\ \E k \in DOMAIN config[m].gray_values : config[m].gray_values[k] = g
    /\ g \in DOMAIN config[m].gray_indexes
    /\ ActiveFrames(Manager(m), g, state) # << >>
    /\ Combine(ActiveFrames(Manager(m), g, state))[p] > 0

\* the layers painting pixel p in the latest call
PaintingLayers(p) ==
    {g \in GrayValues : Paints(call.m, g, call.state, p)}

AskedFrame ==
    /\ call.op = "get_frame"
    /\ call.m \in loaded

\* C8 as stated: for a loaded sequence whose maximum frame number is M,
\* get_frame with a frame number above M returns the bitmap of frame M.
\* (SpecStore)
C8_FreezeOnLastFrame ==
    (/\ AskedFrame
     /\ call.gray \in DOMAIN sequence_max_frames[call.m]
     /\ call.seq \in DOMAIN sequence_max_frames[call.m][call.gray]
     /\ call.frame > sequence_max_frames[call.m][call.gray][call.seq])
    => /\ call.ret # NoFrame
       /\ call.ret =
            sequence_frames[call.m][call.gray][call.seq]
                [sequence_max_frames[call.m][call.gray][call.seq]]

\* C9 as stated: after load_sequence_frames, get_frame returns the bitmap of
\* every readable frame file on disk whose directory and file names carry a
\* number, frame 0 and single-frame sequences included. (SpecStore)
C9_DiscoveredRetrievable ==
    AskedFrame =>
        \A f \in disk :
            (/\ f.img # NoFrame
             /\ f.gray = call.gray
             /\ \E k \in DOMAIN config[call.m].gray_values :
                   config[call.m].gray_values[k] = f.gray
             /\ ParseInt(f.dir) = call.seq
             /\ ParseInt(f.file) = call.frame)
            => /\ call.ret # NoFrame
               /\ call.ret = threshold(f.img)

(***************************************************************************)
(* Claims on TMPLMonitor.process_state                                     *)
(***************************************************************************)

\* C7: process_and_save with an empty mapping returns None, writes no file
\* and keeps results_index; process_state with an empty or all-zero vector
\* calls no manager, writes no file and keeps previous_state. (SpecMonitor)
C7_EmptyIsNoOp ==
    [][/\ (call'.op = "process_and_save" /\ call'.state = << >>)
            => /\ call'.ret = NoPath
               /\ ~call'.raised
               /\ results_dir' = results_dir
               /\ results_index' = results_index
       /\ (call'.op = "process_state" /\ Falsy(call'.state))
            => /\ call'.calls = << >>
               /\ ~call'.raised
               /\ results_dir' = results_dir
               /\ results_index' = results_index
               /\ previous_state' = previous_state]_vars

\* after a vector was processed and files were written, process_and_save
\* was called with an empty mapping and returned None
C7_Witness ==
    /\ call.op = "process_and_save"
    /\ call.state = << >>
    /\ call.ret = NoPath
    /\ previous_state # NoState
    /\ results_index[1] >= 1
    /\ DOMAIN results_dir # {}

\* C10: a process_state call with the vector held in previous_state calls
\* process_and_save on no manager, writes no file and moves no index.
\* (SpecMonitor)
C10_SameVectorIsNoOp ==
    [][(call'.op = "process_state" /\ call'.state = previous_state)
          => /\ call'.calls = << >>
             /\ ~call'.raised
             /\ results_dir' = results_dir
             /\ results_index' = results_index
             /\ previous_state' = previous_state]_vars

\* the latest call passed the vector processed before it, with a counter
\* above 0, and called no manager
C10_Witness ==
    /\ call.op = "process_state"
    /\ ~Falsy(call.state)
    /\ call.state = previous_state
    /\ call.calls = << >>
    /\ \A m \in Managers : results_index[m] >= 1

(***************************************************************************)
(* Claims on the file names of process_and_save                            *)
(***************************************************************************)

\* C11: results_index of a manager starts at 0; a process_and_save call
\* with a non-empty mapping that returns, returns the file numbered
\* results_index + 1 and leaves results_index at that number; no call of
\* process_and_save or process_state lowers the results_index of a manager
\* or moves it by more than 1. (SpecMonitor)
C11_IndexGrowsByOne ==
    /\ \A m \in Managers : results_index[m] = 0
    /\ [][/\ \A m \in Managers :
                /\ results_index'[m] >= results_index[m]
                /\ results_index'[m] <= results_index[m] + 1
          /\ (/\ call'.op = "process_and_save"
              /\ call'.state # << >>
              /\ ~call'.raised)
                => /\ call'.ret = results_index[call'.m] + 1
                   /\ results_index'[call'.m] = call'.ret]_vars

\* the second returning call on manager 1 returned the file numbered 2
C11_Witness ==
    /\ call.op = "process_and_save"
    /\ call.state # << >>
    /\ ~call.raised
    /\ call.ret = 2
    /\ results_index[1] = 2

\* C12 as stated: a process_and_save call that does not raise and returns a
\* path has written the file at that path; a process_state call raises
\* when a process_and_save call it made raised. (SpecMonitor)
C12_ReturnedPathWritten ==
    /\ (call.op = "process_and_save" /\ ~call.raised /\ call.ret # NoPath)
          => call.ret \in DOMAIN results_dir
    /\ (call.op = "process_state" /\ ~call.raised /\ call.calls # << >>)
          => \A k \in DOMAIN call.calls :
                call.calls[k][2] # << >>
                    => results_index[call.calls[k][1]] \in DOMAIN results_dir

(***************************************************************************)
(* Claims on DepthTracker: short vectors, independence, reset              *)
(***************************************************************************)

\* C13 as stated: an update call whose presence vector has no entry for a
\* zone leaves that zone without dwell timer and without last-increment
\* time, and leaves its counter as it was. (SpecTracker)
C13_MissingEntriesAbsent ==
    [][\A i \in Zones :
          i >= Len(column_presence')
              => /\ position_timers'[i] = None
                 /\ last_increment_time'[i] = None
                 /\ position_counters'[i] = position_counters[i]]_vars

(***************************************************************************)
(* Claims on get_frame and its use by process_and_save                     *)
(***************************************************************************)

\* C14: get_frame returns None when the gray value has no loaded sequences,
\* when the sequence is not a loaded sequence of the gray value, and when
\* the sequence holds no frame. (SpecStore)
C14_UnknownIsNone ==
    call.op = "get_frame" =>
        ((\/ call.gray \notin DOMAIN sequence_frames[call.m]
          \/ call.seq \notin DOMAIN sequence_frames[call.m][call.gray]
          \/ sequence_frames[call.m][call.gray][call.seq] = EmptyDict)
         => call.ret = NoFrame)

\* a frame asked of a loaded sequence directory that holds no frame, next
\* to a sequence that holds one
C14_Witness ==
    /\ AskedFrame
    /\ call.gray \in DOMAIN sequence_frames[call.m]
    /\ call.seq \in DOMAIN sequence_frames[call.m][call.gray]
    /\ sequence_frames[call.m][call.gray][call.seq] = EmptyDict
    /\ DOMAIN sequence_max_frames[call.m][call.gray] # {}
    /\ call.ret = NoFrame

\* the requests of a list for which get_frame finds a frame
RECURSIVE FoundRequests(_, _, _)
FoundRequests(mgr, g, requests) ==
    IF requests = << >> THEN << >>
    ELSE (IF get_frame(mgr.frames, mgr.maxes, g,
                       Head(requests)[1], Head(requests)[2]) # NoFrame
          THEN <<Head(requests)>> ELSE << >>)
         \o FoundRequests(mgr, g, Tail(requests))

\* a state mapping with the requests that find no frame taken out
WithoutMissing(mgr, state) ==
    [k \in DOMAIN state |->
        <<state[k][1], FoundRequests(mgr, state[k][1], state[k][2])>>]

\* C15: a process_and_save call whose mapping lists requests that find no
\* frame returns a path like any other, and the composite it writes is the
\* composite of the same mapping without those requests. (SpecComposite)
C15_MissingFrameSkipped ==
    /\ (call.op = "process_and_save" /\ call.state # << >> /\ ~call.raised)
          => call.ret # NoPath
    /\ WroteComposite
          => results_dir[call.ret] =
                Composite(Manager(call.m),
                          WithoutMissing(Manager(call.m), call.state))

\* a composite written for one layer without static mask, whose list holds
\* a request that finds a frame and a request that finds none; the frame
\* that was found is painted
C15_Witness ==
    /\ WroteComposite
    /\ Len(call.state) = 1
    /\ call.state[1][1] \notin DOMAIN mask_cache[call.m]
    /\ Len(call.state[1][2]) = 2
    /\ Len(FoundRequests(Manager(call.m), call.state[1][1],
                         call.state[1][2])) = 1
    /\ \E p \in Pixels : results_dir[call.ret][p] # Background

(***************************************************************************)
(* Claims on the frames the layer store holds                              *)
(***************************************************************************)

\* the numbers directory and file names can carry
NameNumbers == {ParseInt(t) : t \in DirTokens \cup FrameTokens} \ {ValueError}

\* the (gray value, sequence, frame) keys of the bitmaps manager m holds
HeldFrames(m) ==
    {k \in GrayValues \X NameNumbers \X NameNumbers :
        /\ k[1] \in DOMAIN sequence_frames[m]
        /\ k[2] \in DOMAIN sequence_frames[m][k[1]]
        /\ k[3] \in DOMAIN sequence_frames[m][k[1]][k[2]]}

\* the frame files on disk that manager m can load: readable, of a
\* configured gray value, directory and file named by a number
LoadableFiles(m) ==
    {f \in disk :
        /\ \E k \in DOMAIN config[m].gray_values :
              config[m].gray_values[k] = f.gray
        /\ f.img # NoFrame
        /\ ParseInt(f.dir) # ValueError
        /\ ParseInt(f.file) # ValueError}

\* a capacity below the number of frame files a disk can hold
CacheCapacity == MaxFiles - 1

C17_ZonesIndependent ==
    \A i \in agreed :
        /\ position_counters[i] = twin_counters[i]
        /\ position_timers[i] = twin_timers[i]
        /\ last_increment_time[i] = twin_lastinc[i]

\* zone 0 is the zone the twin shares and has counted in both trackers;
\* zone 1 has counted in the tracker and never in the twin
C17_Witness ==
    /\ 0 \in agreed
    /\ 1 \notin agreed
    /\ position_counters[0] >= 1
    /\ twin_counters[0] = position_counters[0]
    /\ position_counters[1] >= 1
    /\ twin_counters[1] = 0

\* the latest step was a call of reset
ResetStep == call'.op = "reset" /\ call' # call

C19_SingleSnapshot ==
    /\ frame_pc \in {"managers", "record"}
          => /\ CountersList = entry_state
             /\ active_seq = active_sequences(entry_state, NumZones)
    /\ (call.op = "process_frame" /\ call.recorded)
          => previous_state = call.state

\* process_state has composited two different vectors, the second with
\* both zones counted, and recorded it
C19_Witness ==
    /\ call.op = "process_frame"
    /\ call.recorded
    /\ previous_state = call.state
    /\ \A k \in 1 .. 2 : previous_state[k] >= 1
    /\ \A m \in Managers : config[m] # EmptyConfig => results_index[m] >= 2
    /\ frame_pc = "update"

(***************************************************************************)
(* Claims on the pixels of a composite                                     *)
(***************************************************************************)

\* the configured layers with an output index that have, in the latest
\* call, a gathered bitmap (static mask or resolved frame) nonzero at p
NonzeroLayers(p) ==
    {g \in DOMAIN config[call.m].gray_indexes :
        /\ \E k \in DOMAIN config[call.m].gray_values :
              config[call.m].gray_values[k] = g
        /\ \E k \in DOMAIN ActiveFrames(Manager(call.m), g, call.state) :
              ActiveFrames(Manager(call.m), g, call.state)[k][p] > 0}

\* C20: in a written composite a pixel is 255 when no gathered bitmap of an
\* indexed layer is nonzero there, and otherwise is the output index of a
\* layer with a gathered bitmap nonzero there: a layer paints where any of
\* its bitmaps is nonzero. (SpecComposite)
C20_PixelIsBackgroundOrIndex ==
    WroteComposite =>
        \A p \in Pixels :
            IF NonzeroLayers(p) = {}
            THEN results_dir[call.ret][p] = Background
            ELSE \E g \in NonzeroLayers(p) :
                    results_dir[call.ret][p] = config[call.m].gray_indexes[g]

\* a composite of one layer with two gathered bitmaps, its static mask
\* nonzero at the first pixel only and a frame nonzero at the last pixel
\* only; both pixels hold the layer's index
C20_Witness ==
    /\ WroteComposite
    /\ Len(config[call.m].gray_values) = 1
    /\ LET g == config[call.m].gray_values[1]
           frames == ActiveFrames(Manager(call.m), g, call.state)
       IN /\ Len(frames) = 2
          /\ frames[1][1] > 0 /\ frames[1][NumPixels] = 0
          /\ frames[2][1] = 0 /\ frames[2][NumPixels] > 0
          /\ results_dir[call.ret][1] = config[call.m].gray_indexes[g]
          /\ results_dir[call.ret][NumPixels] = config[call.m].gray_indexes[g]

(***************************************************************************)
(* Claims on the first increment of a dwell                                *)
(***************************************************************************)

\* the call of this step reports zone i present and finds its dwell timer
\* threshold_time old or older, no increment made yet in this dwell
ReachesThreshold(i) ==
    /\ Reports(column_presence', i)
    /\ position_timers[i] # None
    /\ last_increment_time[i] = position_timers[i]
    /\ now' - position_timers[i] >= threshold_time

\* C21 as stated: the call at which a zone's dwell first reaches
\* threshold_time sets the last-increment time to now and leaves the
\* counter; no increment comes earlier than threshold_time +
\* increment_interval after the dwell started. (SpecDwell)
C21_ThresholdCallArmsOnly ==
    [][\A i \in Zones :
          /\ ReachesThreshold(i)
                => /\ position_counters'[i] = position_counters[i]
                   /\ last_increment_time'[i] = now'
          /\ position_counters'[i] > position_counters[i]
                => now' - position_timers[i]
                       >= threshold_time + increment_interval]_vars

\* C21 as amended: the call at which a zone's dwell first reaches
\* threshold_time increments the counter and sets the last-increment time
\* to now; no increment comes earlier than threshold_time after the dwell
\* timer was set. (SpecDwell)
C21_ThresholdCallIncrements ==
    [][\A i \in Zones :
          /\ ReachesThreshold(i)
                => /\ position_counters'[i] = position_counters[i] + 1
                   /\ last_increment_time'[i] = now'
          /\ position_counters'[i] > position_counters[i]
                => /\ position_timers[i] # None
                   /\ now' - position_timers[i] >= threshold_time]_vars

\* zone 0 was incremented for the first time, threshold_time after its
\* dwell timer was set
C21_Witness ==
    /\ position_counters[0] = 1
    /\ position_timers[0] # None
    /\ now - position_timers[0] = threshold_time
    /\ last_increment_time[0] = now

(***************************************************************************)
(* Claims on the order of the layers                                       *)
(***************************************************************************)

\* the order in which the latest process_and_save call visited the layers
VisitOrder ==
    sorted_gray_values(config[call.m].gray_values, config[call.m])

\* the place of gray value g in the configuration's list
ListedAt(g) ==
    CHOOSE k \in DOMAIN config[call.m].gray_values :
        config[call.m].gray_values[k] = g

\* the latest call was a process_and_save that went through the layers
VisitedLayers ==
    /\ call.op = "process_and_save"
    /\ call.state # << >>

\* C22 as stated: the layers are visited by descending output index, and
\* layers of equal output index by descending gray value. (SpecComposite)
C22_TiesByGrayValue ==
    VisitedLayers =>
        \A j, k \in DOMAIN VisitOrder :
            j < k =>
                \/ SortKey(config[call.m], VisitOrder[j])
                       > SortKey(config[call.m], VisitOrder[k])
                \/ /\ SortKey(config[call.m], VisitOrder[j])
                          = SortKey(config[call.m], VisitOrder[k])
                   /\ VisitOrder[j] > VisitOrder[k]

\* C22 as amended: the layers visited are the configured ones, each once,
\* by descending output index, and layers of equal output index in the
\* order in which the configuration lists them. (SpecComposite)
C22_TiesByListing ==
    VisitedLayers =>
        /\ Len(VisitOrder) = Len(config[call.m].gray_values)
        /\ {VisitOrder[k] : k \in DOMAIN VisitOrder}
               = {config[call.m].gray_values[k] :
                     k \in DOMAIN config[call.m].gray_values}
        /\ \A j, k \in DOMAIN VisitOrder :
              j < k =>
                  \/ SortKey(config[call.m], VisitOrder[j])
                         > SortKey(config[call.m], VisitOrder[k])
                  \/ /\ SortKey(config[call.m], VisitOrder[j])
                            = SortKey(config[call.m], VisitOrder[k])
                     /\ ListedAt(VisitOrder[j]) < ListedAt(VisitOrder[k])

\* a composite written by a manager whose configuration lists 100 before
\* 200 with one output index for both: 100 was visited first
C22_Witness ==
    /\ WroteComposite
    /\ config[call.m].gray_values = <<100, 200>>
    /\ config[call.m].gray_indexes[100] = config[call.m].gray_indexes[200]
    /\ VisitOrder = <<100, 200>>

(***************************************************************************)
(* Claims on frame numbers that were never discovered                      *)
(***************************************************************************)

\* the latest call asked a sequence that holds frames for a frame number
\* it does not hold
AskedUndiscovered ==
    /\ AskedFrame
    /\ call.gray \in DOMAIN sequence_max_frames[call.m]
    /\ call.seq \in DOMAIN sequence_max_frames[call.m][call.gray]
    /\ call.frame \notin DOMAIN sequence_frames[call.m][call.gray][call.seq]

\* the maximum frame number of the sequence the latest call asked
AskedMax == sequence_max_frames[call.m][call.gray][call.seq]

\* C23 as stated: asked for a frame number that an existing sequence does
\* not hold, below its maximum or above it, get_frame returns the bitmap of
\* the sequence's maximum frame. (SpecStore)
C23_UndiscoveredGivesMax ==
    AskedUndiscovered =>
        /\ call.ret # NoFrame
        /\ call.ret = sequence_frames[call.m][call.gray][call.seq][AskedMax]

\* C23 as amended: asked for a frame number above the maximum of an
\* existing sequence, get_frame answers as it does for the maximum itself;
\* asked for a frame number the sequence does not hold below its maximum,
\* it returns None. (SpecStore)
C23_AboveClampsGapIsNone ==
    AskedUndiscovered =>
        /\ call.frame > AskedMax =>
              call.ret = get_frame(sequence_frames[call.m],
                                   sequence_max_frames[call.m],
                                   call.gray, call.seq, AskedMax)
        /\ call.frame < AskedMax => call.ret = NoFrame

\* frame 1 asked of a sequence that holds frames 0 and 2: None
C23_Witness ==
    /\ AskedUndiscovered
    /\ DOMAIN sequence_frames[call.m][call.gray][call.seq] = {0, 2}
    /\ call.frame = 1
    /\ call.ret = NoFrame

(***************************************************************************)
(* Claims on the mapping process_state hands to the managers               *)
(***************************************************************************)

\* the latest call was a process_state that went on to the managers
PassedNoOpChecks ==
    /\ call.op = "process_state"
    /\ call.calls # << >>

\* list holds exactly the pairs (i, state[i]) of the zones i with
\* state[i] > 0, by increasing i (zone i is entry i + 1 of the vector)
ActivePairs(list, state) ==
    /\ \A x \in DOMAIN list :
          /\ list[x][1] \in 0 .. Len(state) - 1
          /\ list[x][2] = state[list[x][1] + 1]
          /\ list[x][2] > 0
    /\ \A i \in DOMAIN state :
          state[i] > 0 => \E x \in DOMAIN list : list[x][1] = i - 1
    /\ \A x, y \in DOMAIN list : x < y => list[x][1] < list[y][1]

\* C24: for a vector that passes the no-op checks, the mapping every
\* manager is given has one entry for each gray value of the manager's
\* configuration and nothing else, and every entry holds the list of the
\* pairs (i, counters[i]) of the zones with a positive counter, by
\* increasing i; the managers are called one after the other, all of them
\* unless one raises. (SpecMonitor)
C24_MappingPerManager ==
    PassedNoOpChecks =>
        /\ \A k \in DOMAIN call.calls :
              LET m == call.calls[k][1]
                  cs == call.calls[k][2]
              IN /\ m = k
                 /\ Len(cs) = Len(config[m].gray_values)
                 /\ \A j \in DOMAIN cs :
                       /\ cs[j][1] = config[m].gray_values[j]
                       /\ ActivePairs(cs[j][2], call.state)
        /\ ~call.raised => Len(call.calls) = NumManagers

\* the vector (0, 1) given to a monitor whose first manager has two layers:
\* both managers were given the one pair (1, 1) for both layers
C24_Witness ==
    /\ PassedNoOpChecks
    /\ call.state = <<0, 1>>
    /\ Len(call.calls) = NumManagers
    /\ config[1] = TwoLayers
    /\ call.calls[1][2] = <<<<100, <<<<1, 1>>>>>>, <<200, <<<<1, 1>>>>>>>>

(***************************************************************************)
(* Claims on process_state when a manager raises                           *)
(***************************************************************************)

\* the step is a process_state call that went on to the managers
CompositingStep ==
    /\ call'.op = "process_state"
    /\ call'.calls # << >>
    /\ <<call, results_index, results_dir, previous_state>>'
          # <<call, results_index, results_dir, previous_state>>

\* C25: a process_state call in which process_and_save raises raises
\* itself and leaves previous_state as it was; previous_state changes only
\* in a process_state call that composited with every manager, to the
\* vector of that call; and the call after one that raised, given the same
\* vector, goes on to the managers again. (SpecMonitor)
C25_RaiseKeepsPreviousState ==
    [][/\ (CompositingStep /\ call'.raised) =>
              previous_state' = previous_state
       /\ (CompositingStep /\ ~call'.raised) =>
              previous_state' = call'.state
       /\ previous_state' # previous_state =>
              /\ call'.op = "process_state"
              /\ ~call'.raised
              /\ Len(call'.calls) = NumManagers
              /\ previous_state' = call'.state
       /\ (/\ call.op = "process_state"
           /\ call.raised
           /\ call'.op = "process_state"
           /\ call'.state = call.state) => call'.calls # << >>]_vars

\* a call raised after an earlier call with another vector had composited:
\* previous_state is still the earlier vector
C25_Witness ==
    /\ call.op = "process_state"
    /\ call.raised
    /\ call.calls # << >>
    /\ previous_state # NoState
    /\ previous_state # call.state

(***************************************************************************)
(* Claims on the log and on the size of a counter's change                 *)
(***************************************************************************)

\* the sum of the counters of zones 0 .. n-1
RECURSIVE SumCounters(_, _)
SumCounters(counters, n) ==
    IF n = 0 THEN 0 ELSE SumCounters(counters, n - 1) + counters[n - 1]

\* C26: after any update call, the log holds one line for every increment
\* made since construction (as many lines as the sum of the counters), and
\* if any counter was incremented its last line is the current counter
\* vector. (SpecTracker)
C26_EveryChangeLogged ==
    /\ Len(log) = SumCounters(position_counters, NumZones)
    /\ SumCounters(position_counters, NumZones) > 0 =>
          log[Len(log)] = position_counters

\* both zones were incremented in the latest call: two lines, the second
\* one the current vector
C26_Witness ==
    /\ position_counters[0] = 1
    /\ position_counters[1] = 1
    /\ \A i \in Zones : /\ position_timers[i] # None
                        /\ position_timers[i] < now
                        /\ last_increment_time[i] = now
    /\ Len(log) = 2
    /\ log[1] # log[2]
    /\ log[2] = position_counters

\* C27: an update call leaves each zone's counter as it was or adds exactly
\* 1 to it, whatever the time since the previous call; no counter ever
\* decreases. (SpecDwell)
C27_AtMostOnePerCall ==
    [][\A i \in Zones :
          \/ position_counters'[i] = position_counters[i]
          \/ position_counters'[i] = position_counters[i] + 1]_vars

\* zone 0 got its first increment in a call that came two increment
\* intervals or more after its dwell reached the threshold: one increment
C27_Witness ==
    /\ position_counters[0] = 1
    /\ last_inc_ever[0] = now
    /\ position_timers[0] # None
    /\ now - position_timers[0] >= threshold_time + 2 * increment_interval

(***************************************************************************)
(* Claims on the file names in the shared results directory                *)
(***************************************************************************)

\* the process_and_save calls of the step's process_state that wrote a file
WritingCalls == {k \in DOMAIN call'.calls : call'.wrote[k]}

\* the number of the file that call k of the step's process_state wrote
WrittenName(k) == results_index'[call'.calls[k][1]]

\* the step changes the monitor or its record of the latest call
MonitorStep ==
    <<call, results_index, results_dir, previous_state>>'
        # <<call, results_index, results_dir, previous_state>>

\* C28 as stated: the numbers of the files that the managers of a monitor
\* write to the results directory are strictly increasing: a file written
\* by process_and_save has a larger number than every file in the
\* directory, and of two files written in one process_state the later has
\* the larger number. (SpecMonitor)
C28_FileNamesIncrease ==
    [][MonitorStep =>
         /\ (call'.op = "process_and_save" /\ call'.wrote) =>
               \A n \in DOMAIN results_dir : n < call'.ret
         /\ call'.op = "process_state" =>
               /\ \A k \in WritingCalls :
                     \A n \in DOMAIN results_dir : n < WrittenName(k)
               /\ \A j, k \in WritingCalls :
                     j < k => WrittenName(j) < WrittenName(k)]_vars

(***************************************************************************)
(* Claims on malformed names in the scan                                   *)
(***************************************************************************)

\* layer g has a sequence directory or a frame file on disk whose trailing
\* part is not a number
HasMalformed(g) ==
    \E x \in disk :
        /\ x.gray = g
        /\ (ParseInt(x.dir) = ValueError \/ ParseInt(x.file) = ValueError)

\* C29 as stated: load_sequence_frames skips the sequence directories and
\* frame files whose trailing part is not a number, and get_frame then
\* returns the bitmap of every readable, well-formed frame file of a
\* configured layer that has such a malformed entry. (SpecStore)
C29_MalformedSkippedRestRetrievable ==
    (AskedFrame /\ HasMalformed(call.gray)) =>
        \A f \in disk :
            (/\ f.img # NoFrame
             /\ f.gray = call.gray
             /\ \E k \in DOMAIN config[call.m].gray_values :
                   config[call.m].gray_values[k] = f.gray
             /\ ParseInt(f.dir) # ValueError
             /\ ParseInt(f.file) # ValueError
             /\ ParseInt(f.dir) = call.seq
             /\ ParseInt(f.file) = call.frame)
            => /\ call.ret # NoFrame
               /\ call.ret = threshold(f.img)

(***************************************************************************)
(* Claims on the cycles of process_frame                                   *)
(***************************************************************************)

\* C30 as stated: a cycle of process_frame writes a composite file exactly
\* when a counter has been incremented since the last cycle that wrote a
\* file, and a cycle whose update changed no counter writes nothing.
\* (SpecPipeline)
C30_WrittenIffIncremented ==
    cycle.ended =>
        /\ cycle.wrote <=> cycle.since_write
        /\ ~cycle.changed => ~cycle.wrote

\* C30 as amended: in a cycle of process_frame, process_state goes on to
\* process_and_save exactly when a counter has been incremented since the
\* last cycle in which it went through every manager without an exception;
\* a composite file is written only in such a cycle, and a cycle that goes
\* through every manager is such a cycle. (SpecPipeline)
C30_CompositedIffIncrementedSinceDone ==
    cycle.ended =>
        /\ cycle.tried <=> cycle.since_done
        /\ cycle.wrote => cycle.tried
        /\ cycle.done => cycle.tried

\* a cycle whose update changed no counter and that wrote a file: the
\* compositing of the cycle before had raised
C30_Witness ==
    /\ cycle.ended
    /\ ~cycle.changed
    /\ cycle.since_done
    /\ cycle.tried
    /\ cycle.wrote
    /\ cycle.done

(***************************************************************************)
(* Claims on what process_and_save leaves behind                           *)
(***************************************************************************)

\* the store a manager has right after loading from the files on disk
FreshManager(m) ==
    [config |-> config[m],
     mask_cache |-> LoadedStore(config[m], static_disk, disk).mask_cache,
     frames |-> LoadedStore(config[m], static_disk, disk).frames,
     maxes |-> LoadedStore(config[m], static_disk, disk).maxes]

\* C31: a process_and_save call, made directly or by process_state, leaves
\* mask_cache, sequence_frames and sequence_max_frames of every manager as
\* they were; and the bitmap a call writes is the composite of its state
\* over the store as loaded, painted on an all-255 bitmap, whatever calls
\* came before it. (SpecMonitor)
C31_StoreUntouchedFreshComposite ==
    /\ [][/\ mask_cache' = mask_cache
          /\ sequence_frames' = sequence_frames
          /\ sequence_max_frames' = sequence_max_frames]_vars
    /\ [](/\ (call.op = "process_and_save" /\ call.wrote) =>
                results_dir[call.ret] = Composite(FreshManager(call.m), call.state)
          /\ call.op = "process_state" =>
                \A k \in DOMAIN call.calls :
                    (call.wrote[k] /\ k = Len(call.calls)) =>
                        results_dir[results_index[call.calls[k][1]]]
                            = Composite(FreshManager(call.calls[k][1]),
                                        call.calls[k][2]))

\* the second file written by a manager whose one layer has its static
\* mask alone, used directly as combined_mask
C31_Witness ==
    /\ call.op = "process_and_save"
    /\ call.wrote
    /\ call.ret = 2
    /\ config[call.m] = OneLayer
    /\ Len(ActiveFrames(Manager(call.m), 100, call.state)) = 1
    /\ \E p \in Pixels : results_dir[2][p] = 5
    /\ \E p \in Pixels : results_dir[2][p] = Background

(***************************************************************************)
(* Claims on the orders the composite does not depend on                   *)
(***************************************************************************)

\* the configurations that list the gray values of cfg in any order, with
\* the output indexes of cfg
Relisted(cfg) ==
    {c \in MaskConfigs :
        /\ c.gray_indexes = cfg.gray_indexes
        /\ {c.gray_values[k] : k \in DOMAIN c.gray_values}
              = {cfg.gray_values[k] : k \in DOMAIN cfg.gray_values}}

\* the state mappings with the keys and lists of state, in any key order
Rekeyed(state) ==
    {s \in StateMappings :
        /\ DictKeys(s) = DictKeys(state)
        /\ \A g \in DictKeys(state) : DictGet(s, g) = DictGet(state, g)}

\* C32: the bitmap process_and_save writes is the one it would write with
\* the gray values of the configuration listed in any other order and with
\* the keys of the state mapping in any other order. (SpecComposite)
C32_OrderIndependent ==
    WroteComposite =>
        \A c \in Relisted(config[call.m]), s \in Rekeyed(call.state) :
            Composite([Manager(call.m) EXCEPT !.config = c], s)
                = results_dir[call.ret]

\* a composite of two layers with one output index, both painting, listed
\* as 200, 100 in the configuration and as 100, 200 in the state
C32_Witness ==
    /\ WroteComposite
    /\ config[call.m].gray_values = <<200, 100>>
    /\ config[call.m].gray_indexes[100] = config[call.m].gray_indexes[200]
    /\ Len(call.state) = 2
    /\ call.state[1][1] = 100
    /\ \A g \in GrayValues : ActiveFrames(Manager(call.m), g, call.state) # << >>
    /\ Cardinality(Relisted(config[call.m])) = 2
    /\ Cardinality(Rekeyed(call.state)) = 2

(***************************************************************************)
(* Claims on the frame numbers of the depth pipeline                       *)
(***************************************************************************)

\* C33 as stated: the request list that process_state composites in a
\* cycle of process_frame is the active_sequences list process_frame
\* reports, whose frame numbers are the counters limited to 10; no frame
\* number above 10 is asked of the store. (SpecLimit)
C33_RequestsLimited ==
    frame_pc \in {"managers", "record"} =>
        /\ active_seq = frame_active_sequences(CountersList, NumZones)
        /\ \A x \in DOMAIN active_seq : active_seq[x][2] <= MaxFrameNumber

\* int(name): the number an output image's name stands for
RECURSIVE NameNumber(_)
NameNumber(name) ==
    IF name = << >> THEN 0
    ELSE 10 * NameNumber(SubSeq(name, 1, Len(name) - 1)) + name[Len(name)]

C35_NoGapInNumbering ==
    /\ {NameNumber(a.name) : a \in spade_output_dir}
           = 1 .. Cardinality(spade_output_dir)
    /\ file_counter = Cardinality(spade_output_dir) + 1

\* C36: a mask file whose processing failed is no longer in the input
\* directory after the call, so it cannot be the oldest file again.
C36_FailedFileRemoved ==
    (spade_call.op = "watch" /\ spade_call.call.handled
                             /\ ~spade_call.call.result)
        => spade_call.call.mask \notin spade_input_dir

\* C37: the frames the loader has put are numbered start_index,
\* start_index + frame_step, ... in that order, the loader's index is the
\* one after the last frame put, every frame in the buffer was loaded from
\* the image of its index, present in its directory, the loader is past its
\* test of the buffer only while the buffer has room, and the buffer holds
\* at most buffer_size frames, in increasing order of index.
C37_LoaderInOrderWithinCapacity ==
    /\ \A k \in DOMAIN enqueued :
          enqueued[k] = start_index + (k - 1) * frame_step
    /\ \A k \in DOMAIN frame_buffer :
          /\ frame_buffer[k].texture \in sequence_dirs
          /\ frame_buffer[k].texture[2] = FileName(frame_buffer[k].index)
    /\ loader.current_index = start_index + Len(enqueued) * frame_step
    /\ loader.pc # "full" => Len(frame_buffer) < buffer_size
    /\ Len(frame_buffer) <= buffer_size
    /\ \A i, j \in DOMAIN frame_buffer :
          i < j => frame_buffer[i].index < frame_buffer[j].index

\* C37 witness: the buffer is full after the loader has put buffer_size
\* frames, and the loader waits at its test of the buffer although the next
\* image is on disk
C37_Witness ==
    /\ Len(frame_buffer) = buffer_size
    /\ Len(enqueued) >= buffer_size
    /\ loader.pc = "full"
    /\ current_directory # None
    /\ <<current_directory, FileName(loader.current_index)>> \in sequence_dirs

\* C38: every frame in the buffer was loaded from the directory given to
\* the latest set_directory call.
C38_BufferFromCurrentDirectory ==
    \A k \in DOMAIN frame_buffer :
        frame_buffer[k].texture[1] = current_directory

\* the threads that are executing adapter.process_frame
Processing == {t \in ThreadIds : threads[t] = "frame"}

\* no thread is created in this step
NoThreadStarted == \A t \in ThreadIds : threads[t] = "unborn" => threads'[t] = "unborn"

\* C39: at most one thread is inside the processing loop, hence at most one
\* executes adapter.process_frame; a step taken while _running is set
\* starts no thread; and from the return of stop() to the next start() no
\* thread is in the loop and no process_frame call is made.
C39_OneThreadQuietAfterStop ==
    /\ [](Cardinality(InLoop) <= 1 /\ Cardinality(Processing) <= 1)
    /\ [](stopped => ~running /\ thread = None /\ InLoop = {})
    /\ [][running => NoThreadStarted]_vars
    /\ [][stopped /\ stopped' => frames_processed' = frames_processed]_vars

\* C39 witness: stop() has returned after joining the second thread, which
\* start() made after the first thread had left the loop by itself, and
\* frames were processed
C39_Witness ==
    /\ stopped
    /\ threads[1] = "done"
    /\ threads[2] = "done"
    /\ frames_processed >= 2

=============================================================================
